---- MODULE Spec2Model ----
(***************************************************************************)
(* Loan eligibility engine: the three-stage matching pipeline              *)
(* (MatcherService.ProcessNewUsers), the match store it writes             *)
(* (MatchRepository) and the single-query Stage 1                          *)
(* (MatchRepository.SQLPrefilterMatches).                                  *)
(*                                                                         *)
(* Conventions.  Money is counted in thousands.  A nullable column or a    *)
(* Go pointer is a sequence of length 0 (NULL / nil) or 1.  A float64      *)
(* score is an exact reduced fraction [n, d]; a DECIMAL(p,2) column and an *)
(* LLM confidence are integers counting hundredths.                        *)
(***************************************************************************)
EXTENDS Integers, Sequences, FiniteSets, TLC

\* ------------------------------------------------------------------ bounds

\* Users 1..n of the roster are in the users table, n <= MaxUsers.
MaxUsers == 3
\* Products 1..m of the roster are in the loan_products table, m <= MaxProducts.
MaxProducts == 3
\* Size of the users table in the bulk scenario: more than 100 pairs survive
\* Stage 2 with a score above 60.
BulkUsers == 130
\* Calls per behaviour: pipeline runs plus direct MatchRepository.Create calls.
MaxCalls == 2
\* The reasoning service answers by the class (UserID + ProductID) % SvcClasses.
SvcClasses == 2
\* Rows of the users table drawn for the Stage-1 comparison.
MaxListLen == 2
\* longest Stage-3 input whose orderings are all tried
MaxShuffled == 4
\* longest list handed to selectTopCandidates on its own, and largest limit
MaxRankLen == 4

\* ------------------------------------------------------- program constants

\* selectTopCandidates(candidates, 100)
TopCandidatesLimit == 100
\* if c.EligibilityScore >= 60
FallbackScore == 60
\* EvaluateMatch without an API key: Confidence 0.7, in hundredths
NoKeyConfidence == 70
\* creditScoreRange := float64(900 - product.MinCreditScore)
MaxCreditScoreValue == 900
\* if tenure == 0 { tenure = 60 }
DefaultTenure == 60
\* llm_confidence DECIMAL(3,2): |value| < 10, in hundredths
ConfidenceOverflow == 1000
\* Fixed-point unit of the EMI computation (pow and the division)
EmiScale == 1000

\* ------------------------------------------------------------ value domain

Nil == <<>>
Ptr(v) == <<v>>

\* ---------------------------------------------------------------- fractions

RECURSIVE GCD(_, _)
GCD(a, b) == IF b = 0 THEN a ELSE GCD(b, a % b)

Abs(x) == IF x < 0 THEN -x ELSE x

Frac(n, d) ==
    LET g == GCD(Abs(n), d)
    IN  [n |-> n \div g, d |-> d \div g]

FracInt(k) == [n |-> k, d |-> 1]

FracAdd(a, b) == Frac(a.n * b.d + b.n * a.d, a.d * b.d)

FracLess(a, b) ==
    LET g == GCD(a.d, b.d)
    IN  a.n * (b.d \div g) < b.n * (a.d \div g)

\* a >= k for an integer k
FracGeqInt(a, k) == a.n >= k * a.d

\* a float64 written to a DECIMAL(p,2) column: rounded to hundredths
ToDecimal2(a) == (2 * 100 * a.n + a.d) \div (2 * a.d)

\* ---------------------------------------------------------------- sequences

\* ss[lo] \o ... \o ss[hi] for a sequence ss of sequences
RECURSIVE Concat(_, _, _)
Concat(ss, lo, hi) ==
    IF lo > hi THEN <<>>
    ELSE IF lo = hi THEN ss[lo]
    ELSE LET mid == (lo + hi) \div 2
         IN  Concat(ss, lo, mid) \o Concat(ss, mid + 1, hi)

\* ------------------------------------------------------------ users table

\* models.User rows as the users table holds them
User(id, income, credit, emp, age, active) ==
    [ID |-> id, MonthlyIncome |-> income, CreditScore |-> credit,
     EmploymentStatus |-> emp, Age |-> age, BatchID |-> "batch-1",
     IsActive |-> active]

UserRoster ==
    << User(0, 60, 780, "employed", 35, TRUE),
       User(0, 25, 900, "self_employed", 21, TRUE),
       User(0, 40, 650, "student", 30, TRUE),
       User(0, 75, 740, "employed", 40, TRUE),
       User(0, 80, 820, "employed", 62, FALSE) >>

\* the users table with n rows, ids 1..n (SERIAL)
UsersTable(n) ==
    [i \in 1..n |->
        [UserRoster[((i - 1) % Len(UserRoster)) + 1] EXCEPT !.ID = i]]

\* ---------------------------------------------------- loan_products table

\* models.LoanProduct rows as the loan_products table holds them
Product(id, rate, amountMin, tenure, minIncome, minCredit, maxCredit, minAge, maxAge, accepted, active) ==
    [ID |-> id, InterestRateMax |-> rate, LoanAmountMin |-> amountMin,
     TenureMaxMonths |-> tenure, MinMonthlyIncome |-> minIncome,
     MinCreditScore |-> minCredit, MaxCreditScore |-> maxCredit,
     MinAge |-> minAge, MaxAge |-> maxAge,
     AcceptedEmploymentStatus |-> accepted, IsActive |-> active]

ProductRoster ==
    << Product(0, 18, 50, 60, 25, 700, Nil, 21, 60,
               <<"employed", "self_employed">>, TRUE),
       Product(0, 12, 50, 12, 25, 700, Nil, 21, 60, <<>>, FALSE),
       Product(0, 18, 1500, 60, 10, 650, Ptr(750), 18, 65, <<>>, TRUE),
       Product(0, 0, 100, 0, 0, 900, Nil, 21, 21,
               <<"self_employed">>, TRUE) >>

\* the loan_products table with m rows, ids 1..m (SERIAL)
ProductsTable(m) ==
    [j \in 1..m |->
        [ProductRoster[((j - 1) % Len(ProductRoster)) + 1] EXCEPT !.ID = j]]

\* ------------------------------------------------------------ repositories

\* UserRepository.GetByIDs: WHERE id IN (ids) AND is_active = true ORDER BY id
GetByIDs(table, ids) ==
    SelectSeq(table, LAMBDA u : u.ID \in ids /\ u.IsActive)

\* ProductRepository.GetAllActive: WHERE is_active = true ORDER BY id
GetAllActive(table) ==
    SelectSeq(table, LAMBDA p : p.IsActive)

\* ------------------------------------------------------------------ Stage 1

\* EmploymentEligible without the empty-list rule
EmploymentEligibleWrong(user, product) ==
    \E k \in 1..Len(product.AcceptedEmploymentStatus) :
        product.AcceptedEmploymentStatus[k] = user.EmploymentStatus

\* the loop over product.AcceptedEmploymentStatus and the empty-list rule
EmploymentEligible(user, product) ==
    \/ \E k \in 1..Len(product.AcceptedEmploymentStatus) :
          product.AcceptedEmploymentStatus[k] = user.EmploymentStatus
    \/ Len(product.AcceptedEmploymentStatus) = 0

\* the MatchCandidate sqlPrefilter builds for one pair (flags as computed)
NewCandidate(user, product) ==
    [UserID |-> user.ID, ProductID |-> product.ID,
     EligibilityScore |-> FracInt(0),
     IncomeEligible |-> user.MonthlyIncome >= product.MinMonthlyIncome,
     CreditScoreEligible |-> user.CreditScore >= product.MinCreditScore,
     AgeEligible |-> user.Age >= product.MinAge /\ user.Age <= product.MaxAge,
     EmploymentEligible |-> EmploymentEligible(user, product),
     LLMCheckPassed |-> FALSE, LLMReasoning |-> "", LLMConfidence |-> 0]

BasicCriteriaPass(c) ==
    c.IncomeEligible /\ c.CreditScoreEligible /\ c.AgeEligible
        /\ c.EmploymentEligible

\* the inner loop of sqlPrefilter for one user: what it appends
PrefilterUser(user, ps) ==
    SelectSeq([j \in 1..Len(ps) |-> NewCandidate(user, ps[j])],
              BasicCriteriaPass)

\* MatcherService.sqlPrefilter: the double loop, users outer, products inner
sqlPrefilter(us, ps) ==
    Concat([i \in 1..Len(us) |-> PrefilterUser(us[i], ps)], 1, Len(us))

\* one row of the CROSS JOIN that the WHERE clause keeps
SQLWhere(u, p, batchID) ==
    /\ u.IsActive
    /\ p.IsActive
    /\ u.MonthlyIncome >= p.MinMonthlyIncome
    /\ u.CreditScore >= p.MinCreditScore
    /\ (p.MaxCreditScore = Nil \/ u.CreditScore <= p.MaxCreditScore[1])
    /\ u.Age >= p.MinAge
    /\ u.Age <= p.MaxAge
    /\ (batchID # "" => u.BatchID = batchID)

\* the rows of the CROSS JOIN for one user that the WHERE clause keeps
SQLRowsOfUser(u, pt, batchID) ==
    SelectSeq([j \in 1..Len(pt) |->
                  [UserDBID |-> u.ID, ProductID |-> pt[j].ID,
                   keep |-> SQLWhere(u, pt[j], batchID)]],
              LAMBDA r : r.keep)

\* MatchRepository.SQLPrefilterMatches: users CROSS JOIN loan_products,
\* filtered by the WHERE clause, ORDER BY u.id, p.id (tables are id-ordered)
SQLPrefilterMatches(ut, pt, batchID) ==
    Concat([i \in 1..Len(ut) |-> SQLRowsOfUser(ut[i], pt, batchID)],
           1, Len(ut))

\* ------------------------------------------------------------------ Stage 2

\* pow(base, exp): exp multiplications, in units of 1/EmiScale
RECURSIVE pow(_, _)
pow(base, exp) ==
    IF exp <= 0 THEN EmiScale
    ELSE (pow(base, exp - 1) * base) \div EmiScale

\* MatcherService.passesBusinessRules without the buffer on maxEMI
passesBusinessRulesNoBuffer(user, product) ==
    LET maxEMI == (user.MonthlyIncome * EmiScale) \div 2
        monthlyRate == (product.InterestRateMax * EmiScale) \div (100 * 12)
        tenure == IF product.TenureMaxMonths = 0 THEN DefaultTenure
                  ELSE product.TenureMaxMonths
        growth == pow(EmiScale + monthlyRate, tenure)
        emiForMinAmount ==
            (product.LoanAmountMin * monthlyRate * growth)
                \div (growth - EmiScale)
    IN  IF monthlyRate > 0
        THEN ~(emiForMinAmount > maxEMI)
        ELSE TRUE

\* MatcherService.passesBusinessRules; every amount in units of 1/EmiScale
passesBusinessRules(user, product) ==
    LET maxEMI == (user.MonthlyIncome * EmiScale) \div 2
        monthlyRate == (product.InterestRateMax * EmiScale) \div (100 * 12)
        tenure == IF product.TenureMaxMonths = 0 THEN DefaultTenure
                  ELSE product.TenureMaxMonths
        growth == pow(EmiScale + monthlyRate, tenure)
        emiForMinAmount ==
            (product.LoanAmountMin * monthlyRate * growth)
                \div (growth - EmiScale)
    IN  IF monthlyRate > 0
        THEN ~(emiForMinAmount > maxEMI * 2)
        ELSE TRUE

\* a component left as computed
ClampNothing(a, top) == a

\* a component above top counted as nothing
ClampDropsExcess(a, top) ==
    IF FracLess(FracInt(top), a) THEN FracInt(0)
    ELSE IF a.n < 0 THEN FracInt(0)
    ELSE a

\* a component cut to [0, top]
Clamp(a, top) ==
    IF FracLess(FracInt(top), a) THEN FracInt(top)
    ELSE IF a.n < 0 THEN FracInt(0)
    ELSE a

\* MatcherService.calculateEligibilityScore
calculateEligibilityScore(user, product) ==
    LET creditScoreExcess == user.CreditScore - product.MinCreditScore
        creditScoreRange == MaxCreditScoreValue - product.MinCreditScore
        creditComponent ==
            IF creditScoreRange > 0
            THEN Clamp(Frac(creditScoreExcess * 40, creditScoreRange), 40)
            ELSE FracInt(0)
        incomeExcess == user.MonthlyIncome - product.MinMonthlyIncome
        incomeRange == product.MinMonthlyIncome * 2
        incomeComponent ==
            IF incomeRange > 0
            THEN Clamp(Frac(incomeExcess * 30, incomeRange), 30)
            ELSE FracInt(0)
        ageRange == product.MaxAge - product.MinAge
        \* (1 - ageDiff/(ageRange/2)) * 10 with ageDiff = |age - midpoint|
        ageRaw == Frac((ageRange
                          - Abs(2 * user.Age - (product.MinAge + product.MaxAge)))
                       * 10, IF ageRange > 0 THEN ageRange ELSE 1)
        ageComponent ==
            IF ageRange > 0
            THEN (IF ageRaw.n < 0 THEN FracInt(0) ELSE ageRaw)
            ELSE FracInt(0)
    IN  FracAdd(FracAdd(creditComponent, incomeComponent),
                FracAdd(FracInt(20), ageComponent))

\* userMap[id] / productMap[id]: the rows with that id (the last one wins)
RowsByID(rows, id) == SelectSeq(rows, LAMBDA r : r.ID = id)

\* one iteration of logicFilter's loop appending its candidate twice
LogicFilterOneTwice(c, us, ps) ==
    LET user == RowsByID(us, c.UserID)
        product == RowsByID(ps, c.ProductID)
    IN  IF user = <<>> \/ product = <<>> THEN <<>>
        ELSE IF ~passesBusinessRules(user[Len(user)], product[Len(product)])
        THEN <<>>
        ELSE <<c, c>>

\* one iteration of logicFilter's loop: the candidates it appends
LogicFilterOne(c, us, ps) ==
    LET user == RowsByID(us, c.UserID)
        product == RowsByID(ps, c.ProductID)
    IN  IF user = <<>> \/ product = <<>> THEN <<>>
        ELSE IF ~passesBusinessRules(user[Len(user)], product[Len(product)])
        THEN <<>>
        ELSE << [c EXCEPT !.EligibilityScore =
                    calculateEligibilityScore(user[Len(user)],
                                              product[Len(product)])] >>

\* MatcherService.logicFilter
logicFilter(cs, us, ps) ==
    Concat([i \in 1..Len(cs) |-> LogicFilterOne(cs[i], us, ps)], 1, Len(cs))

\* ------------------------------------------------------------------- ranker

\* the body of the inner loop at position j (from 1): compare and swap
BubbleStepSwapsTies(cs, j) ==
    IF ~FracLess(cs[j + 1].EligibilityScore, cs[j].EligibilityScore)
    THEN [cs EXCEPT ![j] = cs[j + 1], ![j + 1] = cs[j]]
    ELSE cs

BubbleStep(cs, j) ==
    IF FracLess(cs[j].EligibilityScore, cs[j + 1].EligibilityScore)
    THEN [cs EXCEPT ![j] = cs[j + 1], ![j + 1] = cs[j]]
    ELSE cs

\* the inner loop for j = lo .. hi, in that order
RECURSIVE BubbleInner(_, _, _)
BubbleInner(cs, lo, hi) ==
    IF lo > hi THEN cs
    ELSE IF lo = hi THEN BubbleStep(cs, lo)
    ELSE LET mid == (lo + hi) \div 2
             half == BubbleInner(cs, lo, mid)
         IN  IF Len(half) = Len(cs) THEN BubbleInner(half, mid + 1, hi)
             ELSE half

\* the outer loop for passes i = lo .. hi (from 0), in that order: pass i
\* runs the inner loop over positions 1 .. len-i-1
RECURSIVE BubbleOuter(_, _, _)
BubbleOuter(cs, lo, hi) ==
    IF lo > hi THEN cs
    ELSE IF lo = hi THEN BubbleInner(cs, 1, Len(cs) - lo - 1)
    ELSE LET mid == (lo + hi) \div 2
             half == BubbleOuter(cs, lo, mid)
         IN  IF Len(half) = Len(cs) THEN BubbleOuter(half, mid + 1, hi)
             ELSE half

\* the bubble sort of selectTopCandidates: passes 0 .. len-2
BubbleSort(cs) == BubbleOuter(cs, 0, Len(cs) - 2)

\* MatcherService.selectTopCandidates without the cut to the limit
selectTopCandidatesNoLimit(cs, limit) == cs

\* MatcherService.selectTopCandidates
selectTopCandidates(cs, limit) ==
    IF Len(cs) <= limit THEN cs
    ELSE SubSeq(BubbleSort(cs), 1, limit)

\* ------------------------------------------------- the reasoning service

\* LLMResponse, decoded from the JSON object in the reply text
LLMResponse(qualified, confidence, reasoning) ==
    [Qualified |-> qualified, Confidence |-> confidence,
     Reasoning |-> reasoning]

\* the reply text: where "{" first and "}" last occur (-1: nowhere) and what
\* json.Unmarshal makes of the text between them (Nil: not valid JSON)
Text(start, end, json) == [start |-> start, end |-> end, json |-> json]

\* a 200 reply whose body decodes to this JSON value; a JSON object is a
\* record that has exactly the keys present
Body(value) == [kind |-> "body", status |-> 200, body |-> value]

Answer(text) ==
    Body([candidates |-> << [content |-> [parts |-> << [text |-> text] >>]] >>])

QualifiedReply ==
    Answer(Text(0, 80, Ptr(LLMResponse(TRUE, 90, "strong profile"))))
RejectedReply ==
    Answer(Text(0, 80, Ptr(LLMResponse(FALSE, 30, "income too volatile"))))
\* "confidence": 95 - a percentage where a fraction was asked for
PercentReply ==
    Answer(Text(8, 90, Ptr(LLMResponse(TRUE, 9500, "excellent fit"))))
\* "confidence": 5 - a mark out of ten where a fraction was asked for
OutOfTenReply ==
    Answer(Text(0, 85, Ptr(LLMResponse(TRUE, 500, "good fit"))))
StatusErrorReply == [kind |-> "status", status |-> 429]
TransportErrorReply == [kind |-> "transport_error"]
UndecodableReply == [kind |-> "undecodable", status |-> 200]
NoCandidatesReply == Body([promptFeedback |-> "blocked"])
EmptyCandidatesReply == Body([candidates |-> <<>>])
NoContentReply == Body([candidates |-> << [finishReason |-> "SAFETY"] >>])
NoPartsReply == Body([candidates |-> << [content |-> [role |-> "model"]] >>])
EmptyPartsReply == Body([candidates |-> << [content |-> [parts |-> <<>>]] >>])
NoTextReply ==
    Body([candidates |-> << [content |-> [parts |-> << [data |-> "x"] >>]] >>])
NoJSONReply == Answer(Text(-1, -1, Nil))
InvalidJSONReply == Answer(Text(0, 40, Nil))
\* the only "}" stands before the only "{"
ReversedBracesReply == Answer(Text(9, 3, Nil))

\* replies that may differ from candidate to candidate within one batch
CoreReplies ==
    {QualifiedReply, RejectedReply, StatusErrorReply, NoContentReply}

\* replies the service gives to every candidate of a batch alike
UniformReplies ==
    CoreReplies \cup
    {PercentReply, OutOfTenReply, TransportErrorReply, UndecodableReply, NoCandidatesReply,
     EmptyCandidatesReply, NoPartsReply, EmptyPartsReply, NoTextReply,
     NoJSONReply, InvalidJSONReply, ReversedBracesReply}

\* what a Go call yields: a value, an error, or a panic
Ok(v) == [kind |-> "ok", value |-> v]
Err(msg) == [kind |-> "error", msg |-> msg]
Panic == [kind |-> "panic"]

\* LLMClient.parseResponse: x.(T) without ", ok" panics when x is absent
parseResponse(result) ==
    IF "candidates" \notin DOMAIN result \/ Len(result.candidates) = 0
    THEN Err("no candidates in response")
    ELSE LET candidate == result.candidates[1] IN
    IF "content" \notin DOMAIN candidate THEN Panic
    ELSE LET content == candidate.content IN
    IF "parts" \notin DOMAIN content THEN Panic
    ELSE LET parts == content.parts IN
    IF Len(parts) = 0 THEN Err("no parts in response")
    ELSE IF "text" \notin DOMAIN parts[1] THEN Panic
    ELSE LET text == parts[1].text IN
    IF text.start = -1 \/ text.end = -1 THEN Err("no JSON found in response")
    ELSE IF text.end + 1 < text.start THEN Panic
    ELSE IF text.json = Nil THEN Err("failed to parse JSON")
    ELSE Ok(text.json[1])

\* LLMClient.EvaluateMatch that calls the service even without an API key
EvaluateMatchAlwaysCalls(key, reply) ==
    CASE reply.kind = "transport_error" -> Err("API request failed")
      [] reply.kind = "status" -> Err("API returned status")
      [] reply.kind = "undecodable" -> Err("failed to decode response")
      [] OTHER -> parseResponse(reply.body)

\* LLMClient.EvaluateMatch; reply is what the service sends if it is called
EvaluateMatch(key, reply) ==
    IF key = ""
    THEN Ok(LLMResponse(TRUE, NoKeyConfidence,
                        "LLM check skipped - no API key configured"))
    ELSE CASE reply.kind = "transport_error" -> Err("API request failed")
           [] reply.kind = "status" -> Err("API returned status")
           [] reply.kind = "undecodable" -> Err("failed to decode response")
           [] OTHER -> parseResponse(reply.body)

\* EvaluateMatch sends a request exactly when it has a key
SendsRequest(key) == key # ""

\* ------------------------------------------------------------------ Stage 3

\* the reply the service gives for a candidate: a function of the candidate
ServiceReply(table, c) == table[(c.UserID + c.ProductID) % SvcClasses]

\* the fallback rule of llmCheck with > where the code has >=
FallbackAcceptsAbove(c) ==
    FracLess(FracInt(FallbackScore), c.EligibilityScore)

\* llmCheck on an EvaluateMatch error: c.EligibilityScore >= 60
FallbackAccepts(c) == FracGeqInt(c.EligibilityScore, FallbackScore)

\* one iteration of llmCheck's loop for candidate c: whether it panics, the
\* candidate as the iteration leaves it, whether it is appended to passed,
\* and the error it records in lastErr (Nil: none)
LLMCheckOne(c, us, ps, key, reply) ==
    LET user == RowsByID(us, c.UserID)
        product == RowsByID(ps, c.ProductID)
        r == EvaluateMatch(key, reply)
        skip == [panic |-> FALSE, called |-> FALSE, cand |-> c,
                 append |-> FALSE, err |-> Nil]
    IN  IF user = <<>> \/ product = <<>> THEN skip
        ELSE IF r.kind = "panic"
        THEN [skip EXCEPT !.panic = TRUE, !.called = TRUE]
        ELSE IF r.kind = "error"
        THEN IF FallbackAccepts(c)
             THEN [panic |-> FALSE, called |-> TRUE,
                   cand |-> [c EXCEPT
                       !.LLMCheckPassed = TRUE,
                       !.LLMReasoning =
                         "LLM check skipped due to API error, high score approved"],
                   append |-> TRUE, err |-> Ptr(r.msg)]
             ELSE [skip EXCEPT !.called = TRUE, !.err = Ptr(r.msg)]
        ELSE [panic |-> FALSE, called |-> TRUE,
              cand |-> [c EXCEPT !.LLMCheckPassed = r.value.Qualified,
                                 !.LLMReasoning = r.value.Reasoning,
                                 !.LLMConfidence = r.value.Confidence],
              append |-> r.value.Qualified, err |-> Nil]

\* createMatches writing the status Create's callers use
MatchCreateOfPending(c) ==
    [UserID |-> c.UserID, ProductID |-> c.ProductID,
     MatchScore |-> c.EligibilityScore,
     Status |-> "pending", MatchSource |-> "llm_check",
     IncomeEligible |-> c.IncomeEligible,
     CreditScoreEligible |-> c.CreditScoreEligible,
     AgeEligible |-> c.AgeEligible,
     EmploymentEligible |-> c.EmploymentEligible,
     LLMAnalysis |-> c.LLMReasoning,
     LLMConfidence |-> IF c.LLMConfidence > 0 THEN Ptr(c.LLMConfidence)
                       ELSE Nil,
     BatchID |-> ""]

\* one element of createMatches' result
MatchCreateOf(c) ==
    [UserID |-> c.UserID, ProductID |-> c.ProductID,
     MatchScore |-> c.EligibilityScore,
     Status |-> "eligible", MatchSource |-> "llm_check",
     IncomeEligible |-> c.IncomeEligible,
     CreditScoreEligible |-> c.CreditScoreEligible,
     AgeEligible |-> c.AgeEligible,
     EmploymentEligible |-> c.EmploymentEligible,
     LLMAnalysis |-> c.LLMReasoning,
     LLMConfidence |-> IF c.LLMConfidence > 0 THEN Ptr(c.LLMConfidence)
                       ELSE Nil,
     BatchID |-> ""]

\* MatcherService.createMatches
createMatches(cs) == [i \in 1..Len(cs) |-> MatchCreateOf(cs[i])]

\* -------------------------------------------------------------- match store

\* the row an INSERT INTO matches adds for MatchCreate m
NewMatchRow(m, id, now) ==
    [ID |-> id, UserID |-> m.UserID, ProductID |-> m.ProductID,
     MatchScore |-> ToDecimal2(m.MatchScore), Status |-> m.Status,
     MatchSource |-> m.MatchSource,
     IncomeEligible |-> m.IncomeEligible,
     CreditScoreEligible |-> m.CreditScoreEligible,
     AgeEligible |-> m.AgeEligible,
     EmploymentEligible |-> m.EmploymentEligible,
     LLMAnalysis |-> m.LLMAnalysis, LLMConfidence |-> m.LLMConfidence,
     BatchID |-> m.BatchID, CreatedAt |-> now, UpdatedAt |-> now,
     NotifiedAt |-> Nil]

\* ON CONFLICT (user_id, product_id) DO UPDATE SET ... of Create
UpdateAllColumns(r, m, now) ==
    [r EXCEPT !.MatchScore = ToDecimal2(m.MatchScore), !.Status = m.Status,
              !.MatchSource = m.MatchSource,
              !.IncomeEligible = m.IncomeEligible,
              !.CreditScoreEligible = m.CreditScoreEligible,
              !.AgeEligible = m.AgeEligible,
              !.EmploymentEligible = m.EmploymentEligible,
              !.LLMAnalysis = m.LLMAnalysis,
              !.LLMConfidence = m.LLMConfidence,
              !.BatchID = m.BatchID, !.UpdatedAt = now]

\* the ON CONFLICT clause of BulkInsert putting the row back to pending
UpdateScoreResetStatus(r, m, now) ==
    [r EXCEPT !.MatchScore = ToDecimal2(m.MatchScore), !.Status = "pending",
              !.UpdatedAt = now]

\* the ON CONFLICT clause of BulkInsert clearing notified_at as well
UpdateScoreClearsNotified(r, m, now) ==
    [r EXCEPT !.MatchScore = ToDecimal2(m.MatchScore), !.Status = m.Status,
              !.UpdatedAt = now, !.NotifiedAt = Nil]

\* ON CONFLICT (user_id, product_id) DO UPDATE SET ... of BulkInsert
UpdateScoreStatus(r, m, now) ==
    [r EXCEPT !.MatchScore = ToDecimal2(m.MatchScore), !.Status = m.Status,
              !.UpdatedAt = now]

\* an INSERT with no ON CONFLICT clause into a table with no UNIQUE pair
UpsertNoConflict(store, m, id, now, updateAll) ==
    store \cup {NewMatchRow(m, id, now)}

\* INSERT ... ON CONFLICT (user_id, product_id) DO UPDATE on the matches
\* table, UNIQUE(user_id, product_id)
Upsert(store, m, id, now, updateAll) ==
    LET existing ==
            {r \in store : r.UserID = m.UserID /\ r.ProductID = m.ProductID}
    IN  IF existing = {} THEN store \cup {NewMatchRow(m, id, now)}
        ELSE (store \ existing) \cup
             {IF updateAll THEN UpdateAllColumns(r, m, now)
              ELSE UpdateScoreStatus(r, m, now) : r \in existing}

\* the statement is rejected: user_id / product_id REFERENCES a missing row,
\* or llm_confidence does not fit DECIMAL(3,2)
ExecFails(m, ut, pt) ==
    \/ RowsByID(ut, m.UserID) = <<>>
    \/ RowsByID(pt, m.ProductID) = <<>>
    \/ (m.LLMConfidence # Nil /\ m.LLMConfidence[1] >= ConfidenceOverflow)

\* the body of BulkInsert's loop inside the transaction.  tx.Exec fails for
\* a rejected statement and, PostgreSQL having aborted the transaction at
\* its first failed statement, for every statement after it.
\* nextval('matches_id_seq') is taken by every statement that runs.
BulkInsertRow(m, st, now, ut, pt) ==
    IF st.aborted THEN [st EXCEPT !.failed = @ + 1]
    ELSE IF ExecFails(m, ut, pt)
    THEN [st EXCEPT !.failed = @ + 1, !.aborted = TRUE, !.nextID = @ + 1]
    ELSE [st EXCEPT !.inserted = @ + 1, !.nextID = @ + 1,
                    !.store = Upsert(@, m, st.nextID, now, FALSE)]

\* the loop over rows lo .. hi, in that order
RECURSIVE BulkInsertLoop(_, _, _, _, _, _, _)
BulkInsertLoop(ms, lo, hi, st, now, ut, pt) ==
    IF lo > hi THEN st
    ELSE IF lo = hi THEN BulkInsertRow(ms[lo], st, now, ut, pt)
    ELSE LET mid == (lo + hi) \div 2
             half == BulkInsertLoop(ms, lo, mid, st, now, ut, pt)
         IN  IF half.failed >= 0
             THEN BulkInsertLoop(ms, mid + 1, hi, half, now, ut, pt)
             ELSE half

\* MatchRepository.BulkInsert inside DB.WithTransaction.  conn is what the
\* connection does: "ok", "begin_fails" or "commit_fails".  COMMIT of an
\* aborted transaction rolls back and tx.Commit returns an error.
BulkInsert(store, nextID, ms, now, conn, ut, pt) ==
    LET start == [store |-> store, inserted |-> 0, failed |-> 0,
                  aborted |-> FALSE, nextID |-> nextID]
        end == BulkInsertLoop(ms, 1, Len(ms), start, now, ut, pt)
    IN  IF conn = "begin_fails"
        THEN [store |-> store, nextID |-> nextID, inserted |-> 0,
              failed |-> 0, err |-> Ptr("failed to begin transaction")]
        ELSE IF end.aborted \/ conn = "commit_fails"
        THEN [store |-> store, nextID |-> end.nextID,
              inserted |-> end.inserted, failed |-> end.failed,
              err |-> Ptr("failed to commit transaction")]
        ELSE [store |-> end.store, nextID |-> end.nextID,
              inserted |-> end.inserted, failed |-> end.failed, err |-> Nil]

\* MatchRepository.Create: one statement, RETURNING id
Create(store, nextID, m, now, ut, pt) ==
    IF ExecFails(m, ut, pt)
    THEN [store |-> store, nextID |-> nextID + 1,
          err |-> Ptr("failed to create match")]
    ELSE [store |-> Upsert(store, m, nextID, now, TRUE),
          nextID |-> nextID + 1, err |-> Nil]

\* -------------------------------------------------------------------- state

VARIABLES
    usersTable,     \* the users table, ordered by id
    productsTable,  \* the loan_products table, ordered by id
    apiKey,         \* LLMClient.apiKey (cfg.GeminiAPIKey)
    svc,            \* the reasoning service: class of candidate -> reply
    userIDs,        \* the ids ProcessNewUsers is called with
    matches,        \* the matches table: a set of rows
    nextMatchID,    \* matches_id_seq
    clock,          \* time.Now() of the next write
    pc,             \* where ProcessNewUsers stands
    users,          \* ProcessNewUsers: users
    products,       \* ProcessNewUsers: products
    candidates,     \* ProcessNewUsers: candidates
    topCandidates,  \* ProcessNewUsers: topCandidates
    idx,            \* llmCheck: position of the loop over candidates
    passed,         \* llmCheck: passed
    lastErr,        \* llmCheck: lastErr
    result,         \* ProcessNewUsers: result (*MatchingResult)
    ret,            \* what ProcessNewUsers returned: Nil while it runs
    evaluated,      \* pairs EvaluateMatch was called for in this run
    httpCalls,      \* requests sent to the service in this run
    runs,           \* pipeline runs started
    creates,        \* MatchRepository.Create calls made
    firstRun,       \* the matches table when the first run returned
    sqlCandidates,  \* what SQLPrefilterMatches returned
    cancelled,      \* ctx.Done() of the running call is closed
    lastWrite,      \* what the last BulkInsert was given and returned
    probe           \* a function called on its own: arguments and result

config == <<usersTable, productsTable, apiKey, svc, userIDs>>
database == <<matches, nextMatchID, clock>>
locals == <<users, products, candidates, topCandidates, idx, passed, lastErr,
            result, evaluated, httpCalls>>
vars == <<config, database, locals, pc, ret, runs, creates, firstRun,
          sqlCandidates, cancelled, lastWrite, probe>>

\* &MatchingResult{}
EmptyResult ==
    [TotalUsers |-> 0, TotalProducts |-> 0, TotalPairs |-> 0,
     SQLPrefilterPassed |-> 0, LogicFilterPassed |-> 0, LLMCheckPassed |-> 0,
     FinalMatches |-> 0, Errors |-> <<>>]

Returned(res, err) == Ptr([result |-> res, err |-> err])

\* ---------------------------------------------------------------- scenarios

UniformTable(reply) == [k \in 0..(SvcClasses - 1) |-> reply]

\* the service answers every candidate, some with a confidence in percent
MixedOverflowTable ==
    [k \in 0..(SvcClasses - 1) |->
        IF k = 0 THEN QualifiedReply ELSE PercentReply]

\* with a key every table; without one the service is never asked
ServiceConfigs ==
    {[key |-> "key", table |-> t] :
        t \in [0..(SvcClasses - 1) -> CoreReplies]
              \cup {UniformTable(r) : r \in UniformReplies}
              \cup {MixedOverflowTable}}
    \cup {[key |-> "", table |-> UniformTable(QualifiedReply)]}

\* for the large batch: a service that answers, one that always fails, none
BulkServiceConfigs ==
    {[key |-> "key", table |-> UniformTable(r)] :
        r \in {QualifiedReply, StatusErrorReply}}
    \cup {[key |-> "", table |-> UniformTable(QualifiedReply)]}

Scenarios ==
    {[n |-> n, m |-> m, service |-> s] :
        n \in 0..MaxUsers, m \in 0..MaxProducts, s \in ServiceConfigs}
    \cup {[n |-> BulkUsers, m |-> MaxProducts, service |-> s] :
            s \in BulkServiceConfigs}

\* the state between calls: nothing running, an empty matches table
Idle ==
    /\ matches = {}
    /\ nextMatchID = 1
    /\ clock = 1
    /\ pc = "idle"
    /\ users = <<>>
    /\ products = <<>>
    /\ candidates = <<>>
    /\ topCandidates = <<>>
    /\ idx = 1
    /\ passed = <<>>
    /\ lastErr = Nil
    /\ result = EmptyResult
    /\ ret = Nil
    /\ evaluated = <<>>
    /\ httpCalls = 0
    /\ runs = 0
    /\ creates = 0
    /\ firstRun = Nil
    /\ sqlCandidates = <<>>
    /\ cancelled = FALSE
    /\ lastWrite = Nil
    /\ probe = Nil

Init ==
    /\ \E sc \in Scenarios :
          /\ usersTable = UsersTable(sc.n)
          /\ productsTable = ProductsTable(sc.m)
          /\ apiKey = sc.service.key
          /\ svc = sc.service.table
          /\ userIDs = 1..sc.n
    /\ Idle

\* ---------------------------------------------------------- ProcessNewUsers

NotRunning == pc \in {"idle", "done", "failed", "panicked"}

\* the call starts with the context of its caller, not yet cancelled:
\* result := &MatchingResult{}
StartRun ==
    /\ runs' = runs + 1
    /\ candidates' = <<>>
    /\ topCandidates' = <<>>
    /\ idx' = 1
    /\ passed' = <<>>
    /\ lastErr' = Nil
    /\ evaluated' = <<>>
    /\ httpCalls' = 0
    /\ cancelled' = FALSE

\* m.userRepo.GetByIDs succeeds
GetUsers ==
    /\ NotRunning
    /\ runs + creates < MaxCalls
    /\ StartRun
    /\ ret' = Nil
    /\ users' = GetByIDs(usersTable, userIDs)
    /\ products' = <<>>
    /\ result' = [EmptyResult EXCEPT !.TotalUsers = Len(users')]
    /\ pc' = "get_products"
    /\ UNCHANGED <<config, lastWrite, probe, database, creates, firstRun,
                   sqlCandidates>>

\* m.userRepo.GetByIDs fails: return nil, err
GetUsersFails ==
    /\ NotRunning
    /\ runs + creates < MaxCalls
    /\ StartRun
    /\ users' = <<>>
    /\ products' = <<>>
    /\ result' = EmptyResult
    /\ ret' = Returned(Nil, Ptr("failed to get users"))
    /\ pc' = "failed"
    /\ UNCHANGED <<config, lastWrite, probe, database, creates, firstRun,
                   sqlCandidates>>

\* m.productRepo.GetAllActive succeeds: the query runs under ctx
GetProducts ==
    /\ pc = "get_products"
    /\ ~cancelled
    /\ products' = GetAllActive(productsTable)
    /\ result' = [result EXCEPT !.TotalProducts = Len(products'),
                                !.TotalPairs = Len(users) * Len(products')]
    /\ pc' = "prefilter"
    /\ UNCHANGED <<config, cancelled, lastWrite, probe,
                   database, users, candidates, topCandidates, idx,
                   passed, lastErr, evaluated, httpCalls, ret, runs, creates,
                   firstRun, sqlCandidates>>

\* m.productRepo.GetAllActive fails and the run goes on with no products
GetProductsFailsGoesOn ==
    /\ pc = "get_products"
    /\ ret' = Returned(Nil, Ptr("failed to get products"))
    /\ pc' = "prefilter"
    /\ UNCHANGED <<config, cancelled, lastWrite, probe,
                   database, locals, runs, creates, firstRun,
                   sqlCandidates>>

\* m.productRepo.GetAllActive fails: return nil, err
GetProductsFails ==
    /\ pc = "get_products"
    /\ ret' = Returned(Nil, Ptr("failed to get products"))
    /\ pc' = "failed"
    /\ UNCHANGED <<config, cancelled, lastWrite, probe,
                   database, locals, runs, creates, firstRun,
                   sqlCandidates>>

\* Stage 1: candidates := m.sqlPrefilter(users, products)
Prefilter ==
    /\ pc = "prefilter"
    /\ candidates' = sqlPrefilter(users, products)
    /\ result' = [result EXCEPT !.SQLPrefilterPassed = Len(candidates')]
    /\ pc' = "logic_filter"
    /\ UNCHANGED <<config, cancelled, lastWrite, probe,
                   database, users, products, topCandidates, idx,
                   passed, lastErr, evaluated, httpCalls, ret, runs, creates,
                   firstRun, sqlCandidates>>

\* Stage 2: candidates = m.logicFilter(candidates, users, products)
LogicFilter ==
    /\ pc = "logic_filter"
    /\ candidates' = logicFilter(candidates, users, products)
    /\ result' = [result EXCEPT !.LogicFilterPassed = Len(candidates')]
    /\ pc' = "select_top"
    /\ UNCHANGED <<config, cancelled, lastWrite, probe,
                   database, users, products, topCandidates, idx,
                   passed, lastErr, evaluated, httpCalls, ret, runs, creates,
                   firstRun, sqlCandidates>>

\* topCandidates := m.selectTopCandidates(candidates, 100); the sort is in
\* place, and topCandidates is a prefix of the same array
SelectTop ==
    /\ pc = "select_top"
    /\ topCandidates' = selectTopCandidates(candidates, TopCandidatesLimit)
    /\ candidates' = IF Len(candidates) <= TopCandidatesLimit THEN candidates
                     ELSE BubbleSort(candidates)
    /\ idx' = 1
    /\ pc' = "llm_check"
    /\ UNCHANGED <<config, cancelled, lastWrite, probe,
                   database, users, products, passed, lastErr, result,
                   evaluated, httpCalls, ret, runs, creates, firstRun,
                   sqlCandidates>>

\* the loop of llmCheck giving up the fallback after the first failed call
LLMCheckStepOneFallback ==
    /\ pc = "llm_check"
    /\ idx <= Len(topCandidates)
    /\ LET c == topCandidates[idx]
           o == LLMCheckOne(c, users, products, apiKey, ServiceReply(svc, c))
       IN  /\ evaluated' = IF o.called
                           THEN Append(evaluated, <<c.UserID, c.ProductID>>)
                           ELSE evaluated
           /\ httpCalls' = IF o.called /\ SendsRequest(apiKey)
                           THEN httpCalls + 1 ELSE httpCalls
           /\ topCandidates' = [topCandidates EXCEPT ![idx] = o.cand]
           /\ candidates' = [candidates EXCEPT ![idx] = o.cand]
           /\ passed' = IF o.append /\ (o.err = Nil \/ lastErr = Nil)
                        THEN Append(passed, o.cand) ELSE passed
           /\ lastErr' = IF o.err # Nil THEN o.err ELSE lastErr
           /\ idx' = idx + 1
           /\ pc' = IF o.panic THEN "panicked" ELSE "llm_check"
    /\ UNCHANGED <<config, cancelled, lastWrite, probe,
                   database, users, products, result, ret, runs,
                   creates, firstRun, sqlCandidates>>

\* Stage 3: one iteration of the loop of llmCheck; the loop never reads
\* ctx.Done(), and under a cancelled ctx m.llmClient.client.Do returns an error
LLMCheckStep ==
    /\ pc = "llm_check"
    /\ idx <= Len(topCandidates)
    /\ LET c == topCandidates[idx]
           reply == IF cancelled THEN TransportErrorReply
                    ELSE ServiceReply(svc, c)
           o == LLMCheckOne(c, users, products, apiKey, reply)
       IN  /\ evaluated' = IF o.called
                           THEN Append(evaluated, <<c.UserID, c.ProductID>>)
                           ELSE evaluated
           /\ httpCalls' = IF o.called /\ SendsRequest(apiKey)
                           THEN httpCalls + 1 ELSE httpCalls
           /\ topCandidates' = [topCandidates EXCEPT ![idx] = o.cand]
           /\ candidates' = [candidates EXCEPT ![idx] = o.cand]
           /\ passed' = IF o.append THEN Append(passed, o.cand) ELSE passed
           /\ lastErr' = IF o.err # Nil THEN o.err ELSE lastErr
           /\ idx' = idx + 1
           /\ pc' = IF o.panic THEN "panicked" ELSE "llm_check"
    /\ UNCHANGED <<config, cancelled, lastWrite, probe,
                   database, users, products, result, ret, runs,
                   creates, firstRun, sqlCandidates>>

\* llmCheck returns (passed, lastErr) to ProcessNewUsers
LLMCheckReturn ==
    /\ pc = "llm_check"
    /\ idx > Len(topCandidates)
    /\ result' = [result EXCEPT
                    !.Errors = IF lastErr # Nil THEN Append(@, lastErr[1])
                               ELSE @,
                    !.LLMCheckPassed = Len(passed)]
    /\ pc' = "save"
    /\ UNCHANGED <<config, cancelled, lastWrite, probe,
                   database, users, products, candidates,
                   topCandidates, idx, passed, lastErr, evaluated, httpCalls,
                   ret, runs, creates, firstRun, sqlCandidates>>

\* matches := m.createMatches(finalCandidates); m.matchRepo.BulkInsert, whose
\* transaction cannot begin under a cancelled ctx
SaveMatches ==
    /\ pc = "save"
    /\ \E conn \in IF cancelled THEN {"begin_fails"}
                    ELSE {"ok", "begin_fails", "commit_fails"} :
          LET ms == createMatches(passed)
              w == BulkInsert(matches, nextMatchID, ms, clock, conn,
                              usersTable, productsTable)
          IN  /\ matches' = w.store
              /\ nextMatchID' = w.nextID
              /\ clock' = clock + 1
              /\ lastWrite' = Ptr([rows |-> ms, conn |-> conn,
                                   inserted |-> w.inserted,
                                   failed |-> w.failed, err |-> w.err])
              /\ IF w.err # Nil
                 THEN /\ ret' = Returned(Nil, Ptr("failed to save matches"))
                      /\ pc' = "failed"
                      /\ UNCHANGED <<result, firstRun>>
                 ELSE /\ result' = [result EXCEPT !.FinalMatches = Len(ms)]
                      /\ ret' = Returned(Ptr(result'), Nil)
                      /\ pc' = "done"
                      /\ firstRun' =
                           IF firstRun = Nil
                           THEN Ptr([rows |-> matches', creates |-> creates])
                           ELSE firstRun
    /\ UNCHANGED <<config, cancelled, probe,
                   users, products, candidates, topCandidates, idx,
                   passed, lastErr, evaluated, httpCalls, runs, creates,
                   sqlCandidates>>

\* ---------------------------------------------------- MatchRepository.Create

\* the MatchCreate values callers hand to Create
CreateInputs ==
    {[UserID |-> p[1], ProductID |-> p[2], MatchScore |-> FracInt(50),
      Status |-> "pending", MatchSource |-> "manual",
      IncomeEligible |-> TRUE, CreditScoreEligible |-> FALSE,
      AgeEligible |-> TRUE, EmploymentEligible |-> FALSE,
      LLMAnalysis |-> "", LLMConfidence |-> Nil, BatchID |-> "batch-1"] :
        p \in {<<1, 1>>, <<2, 2>>}}

CreateMatch ==
    /\ NotRunning
    /\ runs + creates < MaxCalls
    /\ \E m \in CreateInputs :
          LET w == Create(matches, nextMatchID, m, clock, usersTable,
                          productsTable)
          IN  /\ matches' = w.store
              /\ nextMatchID' = w.nextID
              /\ clock' = clock + 1
    /\ creates' = creates + 1
    /\ UNCHANGED <<config, cancelled, lastWrite, probe,
                   locals, pc, ret, runs, firstRun, sqlCandidates>>

Next ==
    \/ GetUsers
    \/ GetUsersFails
    \/ GetProducts
    \/ GetProductsFails
    \/ Prefilter
    \/ LogicFilter
    \/ SelectTop
    \/ LLMCheckStep
    \/ LLMCheckReturn
    \/ SaveMatches
    \/ CreateMatch

Spec == Init /\ [][Next]_vars

\* ------------------------------------------------------------- cancellation

\* the caller cancels ctx while ProcessNewUsers runs
Cancel ==
    /\ ~NotRunning
    /\ ~cancelled
    /\ cancelled' = TRUE
    /\ UNCHANGED <<config, database, locals, pc, ret, runs, creates, firstRun,
                   sqlCandidates, lastWrite, probe>>

\* the batches of a few users
InitSmall ==
    /\ \E sc \in {x \in Scenarios : x.n <= MaxUsers} :
          /\ usersTable = UsersTable(sc.n)
          /\ productsTable = ProductsTable(sc.m)
          /\ apiKey = sc.service.key
          /\ svc = sc.service.table
          /\ userIDs = 1..sc.n
    /\ Idle

NextCancel ==
    \/ Next
    \/ Cancel

SpecCancel == InitSmall /\ [][NextCancel]_vars

\* ------------------------------------------- selectTopCandidates on its own

\* scores the ranked candidates carry
RankerScores == {FracInt(50), Frac(121, 2), FracInt(70)}

\* the k-th candidate of a list: UserID k, the score given
RankerCandidate(k, score) ==
    [NewCandidate(UserRoster[1], ProductRoster[1]) EXCEPT
        !.UserID = k, !.EligibilityScore = score]

\* every list of up to MaxRankLen candidates with these scores
RankerInputs ==
    UNION {{[k \in 1..n |-> RankerCandidate(k, f[k])] :
               f \in [1..n -> RankerScores]} : n \in 0..MaxRankLen}

InitRanker ==
    /\ \E cs \in RankerInputs :
          /\ usersTable = <<>>
          /\ productsTable = <<>>
          /\ apiKey = ""
          /\ svc = UniformTable(QualifiedReply)
          /\ userIDs = {}
          /\ matches = {}
          /\ nextMatchID = 1
          /\ clock = 1
          /\ pc = "idle"
          /\ users = <<>>
          /\ products = <<>>
          /\ candidates = cs
          /\ topCandidates = <<>>
          /\ idx = 1
          /\ passed = <<>>
          /\ lastErr = Nil
          /\ result = EmptyResult
          /\ ret = Nil
          /\ evaluated = <<>>
          /\ httpCalls = 0
          /\ runs = 0
          /\ creates = 0
          /\ firstRun = Nil
          /\ sqlCandidates = <<>>
          /\ cancelled = FALSE
          /\ lastWrite = Nil
          /\ probe = Nil

\* topCandidates := m.selectTopCandidates(candidates, limit); the sort is in
\* place
RankCandidates ==
    /\ pc = "idle"
    /\ \E limit \in 0..MaxRankLen :
          /\ topCandidates' = selectTopCandidates(candidates, limit)
          /\ candidates' = IF Len(candidates) <= limit THEN candidates
                           ELSE BubbleSort(candidates)
          /\ probe' = Ptr([input |-> candidates, limit |-> limit])
    /\ pc' = "ranked"
    /\ UNCHANGED <<config, database, users, products, idx, passed, lastErr,
                   result, evaluated, httpCalls, ret, runs, creates, firstRun,
                   sqlCandidates, cancelled, lastWrite>>

NextRanker == RankCandidates

SpecRanker == InitRanker /\ [][NextRanker]_vars

\* ------------------------------------------------------ Stage 2 on one pair

\* applicants: income 0 to 300 thousand, credit 300 to 900, age 21 to 120
Stage2Incomes == {0, 25, 50, 300}
Stage2Credits == {300, 700, 900}
Stage2Ages == {21, 40, 120}

Stage2Users ==
    {User(1, income, credit, "employed", age, TRUE) :
        income \in Stage2Incomes, credit \in Stage2Credits,
        age \in Stage2Ages}

\* loan terms <<maximum rate in percent, minimum amount, maximum tenure>>:
\* rates are 0 or whole percents, amounts in thousands, tenure 0 is unset
Stage2Terms ==
    {<<0, 100, 0>>, <<0, 1500, 60>>, <<18, 50, 60>>, <<18, 1500, 60>>,
     <<12, 1500, 12>>, <<18, 1500, 0>>}

\* age ranges <<min_age, max_age>>, one of them a single age
Stage2AgeRanges == {<<21, 21>>, <<21, 59>>, <<18, 120>>}

Stage2Products ==
    {Product(1, t[1], t[2], t[3], minIncome, minCredit, Nil, a[1], a[2],
             <<>>, TRUE) :
        t \in Stage2Terms, minIncome \in {0, 25, 50},
        minCredit \in Stage2Credits, a \in Stage2AgeRanges}

InitStage2 ==
    /\ \E u \in Stage2Users, p \in Stage2Products :
          /\ usersTable = <<u>>
          /\ productsTable = <<p>>
    /\ apiKey = ""
    /\ svc = UniformTable(QualifiedReply)
    /\ userIDs = {1}
    /\ Idle

\* logicFilter on the one candidate of the pair, and the two functions it
\* calls on the pair itself
ScorePair ==
    /\ pc = "idle"
    /\ users' = <<usersTable[1]>>
    /\ products' = <<productsTable[1]>>
    /\ candidates' = logicFilter(<<NewCandidate(users'[1], products'[1])>>,
                                 users', products')
    /\ probe' = Ptr([passes |-> passesBusinessRules(users'[1], products'[1]),
                     score |-> calculateEligibilityScore(users'[1],
                                                         products'[1])])
    /\ pc' = "scored"
    /\ UNCHANGED <<config, database, topCandidates, idx, passed, lastErr,
                   result, evaluated, httpCalls, ret, runs, creates, firstRun,
                   sqlCandidates, cancelled, lastWrite>>

NextStage2 == ScorePair

SpecStage2 == InitStage2 /\ [][NextStage2]_vars

\* ------------------------------------------------- orderings of Stage 3

\* the order sqlPrefilter and logicFilter leave behind: by user, by product
InStageTwoOrder(cs) ==
    \A k \in 1..(Len(cs) - 1) :
        \/ cs[k].UserID < cs[k + 1].UserID
        \/ /\ cs[k].UserID = cs[k + 1].UserID
           /\ cs[k].ProductID < cs[k + 1].ProductID

\* llmCheck of the first run is handed the same candidates in another order
Shuffle ==
    /\ pc = "llm_check"
    /\ idx = 1
    /\ runs = 1
    /\ Len(topCandidates) <= MaxShuffled
    /\ InStageTwoOrder(topCandidates)
    /\ \E perm \in Permutations(DOMAIN topCandidates) :
          /\ \E k \in DOMAIN topCandidates : perm[k] # k
          /\ topCandidates' =
                [k \in DOMAIN topCandidates |-> topCandidates[perm[k]]]
          /\ candidates' = topCandidates'
    /\ UNCHANGED <<config, database, users, products, idx, passed, lastErr,
                   result, evaluated, httpCalls, pc, ret, runs, creates,
                   firstRun, sqlCandidates, cancelled, lastWrite, probe>>

NextOrder ==
    \/ Next
    \/ Shuffle

SpecOrder == InitSmall /\ [][NextOrder]_vars

\* ------------------------------------------- the two Stage-1 implementations

\* applicants the Stage-1 comparison draws its users table from
Stage1Users ==
    {User(0, income, credit, emp, 30, TRUE) :
        income \in {20, 25}, credit \in {650, 700, 780},
        emp \in {"employed", "student"}}
    \cup {User(0, 25, 700, "employed", 30, FALSE)}

\* the loan_products table of the Stage-1 comparison
Stage1Products ==
    << Product(1, 18, 50, 60, 25, 700, Nil, 21, 60,
               <<"employed", "self_employed">>, TRUE),
       Product(2, 18, 50, 60, 20, 650, Ptr(750), 30, 30, <<>>, TRUE),
       Product(3, 18, 50, 60, 25, 700, Ptr(900), 31, 60, <<"student">>, TRUE),
       Product(4, 18, 50, 60, 20, 650, Nil, 18, 29, <<>>, TRUE),
       Product(5, 18, 50, 60, 20, 650, Nil, 18, 65, <<>>, FALSE) >>

\* users tables of up to MaxListLen rows, ids 1..n (SERIAL)
Stage1UsersTables ==
    UNION {{[i \in 1..n |-> [f[i] EXCEPT !.ID = i]] :
               f \in [1..n -> Stage1Users]} : n \in 0..MaxListLen}

InitStage1 ==
    /\ usersTable \in Stage1UsersTables
    /\ productsTable = Stage1Products
    /\ apiKey = ""
    /\ svc = UniformTable(QualifiedReply)
    /\ userIDs = 1..Len(usersTable)
    /\ Idle

\* both Stage-1 implementations on the same tables: sqlPrefilter on what
\* GetByIDs and GetAllActive return, SQLPrefilterMatches on the tables
ComparePrefilters ==
    /\ pc = "idle"
    /\ users' = GetByIDs(usersTable, userIDs)
    /\ products' = GetAllActive(productsTable)
    /\ candidates' = sqlPrefilter(users', products')
    /\ sqlCandidates' = SQLPrefilterMatches(usersTable, productsTable, "")
    /\ pc' = "compared"
    /\ UNCHANGED <<config, cancelled, lastWrite, probe,
                   database, topCandidates, idx, passed, lastErr,
                   result, evaluated, httpCalls, ret, runs, creates,
                   firstRun>>

NextStage1 == ComparePrefilters

SpecStage1 == InitStage1 /\ [][NextStage1]_vars

\* ------------------------------------------------------------ notifications

\* pipeline runs, Create calls and MarkAsNotified calls of one behaviour
MaxNotifyCalls == 3

\* the notification calls so far: the ids MarkAsNotified was given, each with
\* the time of its write, and what the last GetPendingNotifications was
\* asked, when, and what it returned
Notifications ==
    IF probe = Nil
    THEN [marked |-> <<>>, asked |-> FALSE, batchID |-> "", at |-> 0,
          pending |-> <<>>, err |-> Nil]
    ELSE probe[1]

\* UPDATE matches SET status = 'notified', notified_at = $1, updated_at = $1
\* WHERE id = $2
MarkAsNotifiedRows(store, id, now) ==
    {IF r.ID = id
     THEN [r EXCEPT !.Status = "notified", !.NotifiedAt = Ptr(now),
                    !.UpdatedAt = now]
     ELSE r : r \in store}

\* FROM matches m JOIN users u JOIN loan_products p
\* WHERE m.status = 'eligible' AND m.notified_at IS NULL [AND m.batch_id = $1]
IsPendingNotification(r, ut, pt, batchID) ==
    /\ RowsByID(ut, r.UserID) # <<>>
    /\ RowsByID(pt, r.ProductID) # <<>>
    /\ r.Status = "eligible"
    /\ r.NotifiedAt = Nil
    /\ (batchID # "" => r.BatchID = batchID)

\* r may come first under ORDER BY m.user_id, m.match_score DESC
ComesFirst(r, rows) ==
    \A o \in rows :
        \/ r.UserID < o.UserID
        \/ (r.UserID = o.UserID /\ r.MatchScore >= o.MatchScore)

\* the orders the database may return the rows in: rows equal in user and
\* score come in either order
RECURSIVE OrderedRows(_)
OrderedRows(rows) ==
    IF rows = {} THEN {<<>>}
    ELSE UNION {{<<r>> \o rest : rest \in OrderedRows(rows \ {r})} :
                   r \in {x \in rows : ComesFirst(x, rows)}}

\* the writing calls made so far
CallsMade == runs + creates + Len(Notifications.marked)

\* MatchRepository.MarkAsNotified for the id of a stored match
MarkAsNotified ==
    /\ NotRunning
    /\ CallsMade < MaxNotifyCalls
    /\ \E id \in {r.ID : r \in matches} :
          /\ matches' = MarkAsNotifiedRows(matches, id, clock)
          /\ probe' = Ptr([Notifications EXCEPT
                              !.marked = Append(@, [id |-> id, at |-> clock])])
    /\ clock' = clock + 1
    /\ UNCHANGED <<config, nextMatchID, locals, pc, ret, runs, creates,
                   firstRun, sqlCandidates, cancelled, lastWrite>>

\* MatchRepository.GetPendingNotifications: the query fails, or its rows are
\* scanned and returned
GetPendingNotifications ==
    /\ NotRunning
    /\ \E batchID \in {"", "batch-1"} :
          \/ probe' = Ptr([Notifications EXCEPT
                 !.asked = TRUE, !.batchID = batchID, !.at = clock,
                 !.pending = <<>>,
                 !.err = Ptr("failed to query pending notifications")])
          \/ \E rows \in OrderedRows(
                    {r \in matches :
                        IsPendingNotification(r, usersTable, productsTable,
                                              batchID)}) :
                probe' = Ptr([Notifications EXCEPT
                    !.asked = TRUE, !.batchID = batchID, !.at = clock,
                    !.pending = rows, !.err = Nil])
    /\ UNCHANGED <<config, database, locals, pc, ret, runs, creates,
                   firstRun, sqlCandidates, cancelled, lastWrite>>

\* a few users and products, a service that answers, one that fails, none
InitNotify ==
    /\ \E n \in 1..MaxListLen, m \in 1..MaxListLen,
          s \in BulkServiceConfigs :
          /\ usersTable = UsersTable(n)
          /\ productsTable = ProductsTable(m)
          /\ apiKey = s.key
          /\ svc = s.table
          /\ userIDs = 1..n
    /\ Idle

NextNotify ==
    \/ (Next /\ CallsMade' <= MaxNotifyCalls)
    \/ MarkAsNotified
    \/ GetPendingNotifications

SpecNotify == InitNotify /\ [][NextNotify]_vars

\* ------------------------------------------------- ProductRepository.Create

\* calls of ProductRepository.Create in one behaviour
MaxProductCreates == 2

\* a *models.LoanProductCreate whose ranges are min .. max, or max .. min for
\* the ranges named in inverted, with the maximum credit score given
LoanProductCreate(name, inverted, maxCredit) ==
    [ProductName |-> name, ProviderName |-> "Acme Bank",
     InterestRateMin |-> IF "interest" \in inverted THEN 18 ELSE 10,
     InterestRateMax |-> IF "interest" \in inverted THEN 10 ELSE 18,
     LoanAmountMin |-> IF "amount" \in inverted THEN 500 ELSE 50,
     LoanAmountMax |-> IF "amount" \in inverted THEN 50 ELSE 500,
     TenureMinMonths |-> IF "tenure" \in inverted THEN 60 ELSE 12,
     TenureMaxMonths |-> IF "tenure" \in inverted THEN 12 ELSE 60,
     MinMonthlyIncome |-> 25,
     MinCreditScore |-> 700,
     MaxCreditScore |-> maxCredit,
     MinAge |-> IF "age" \in inverted THEN 60 ELSE 21,
     MaxAge |-> IF "age" \in inverted THEN 21 ELSE 60,
     AcceptedEmploymentStatus |-> <<"employed", "self_employed">>]

\* the products callers hand to Create: the maximum credit score unset,
\* above the minimum, or below it
LoanProductCreates ==
    {LoanProductCreate(name, inverted, maxCredit) :
        name \in {"Personal Loan", "Home Loan"},
        inverted \in SUBSET {"interest", "amount", "tenure", "age"},
        maxCredit \in {Nil, Ptr(850), Ptr(650)}}

\* the CHECK, CONSTRAINT and UNIQUE clauses of CREATE TABLE loan_products
LoanProductsConstraints(table, p) ==
    /\ p.InterestRateMin >= 0
    /\ p.InterestRateMax >= 0
    /\ p.LoanAmountMin >= 0
    /\ p.LoanAmountMax >= 0
    /\ p.MinCreditScore >= 300
    /\ p.MinCreditScore <= 900
    /\ p.MinAge >= 18
    /\ p.MaxAge <= 120
    /\ p.LoanAmountMax >= p.LoanAmountMin
    /\ p.InterestRateMax >= p.InterestRateMin
    /\ p.MaxAge >= p.MinAge
    /\ p.TenureMaxMonths >= p.TenureMinMonths
    /\ \A i \in DOMAIN table :
          ~(/\ table[i].ProviderName = p.ProviderName
            /\ table[i].ProductName = p.ProductName)

\* the row INSERT INTO loan_products ... VALUES (..., true, $18) adds
LoanProductRow(p, id) ==
    [ID |-> id, ProductName |-> p.ProductName,
     ProviderName |-> p.ProviderName,
     InterestRateMin |-> p.InterestRateMin,
     InterestRateMax |-> p.InterestRateMax,
     LoanAmountMin |-> p.LoanAmountMin, LoanAmountMax |-> p.LoanAmountMax,
     TenureMinMonths |-> p.TenureMinMonths,
     TenureMaxMonths |-> p.TenureMaxMonths,
     MinMonthlyIncome |-> p.MinMonthlyIncome,
     MinCreditScore |-> p.MinCreditScore,
     MaxCreditScore |-> p.MaxCreditScore,
     MinAge |-> p.MinAge, MaxAge |-> p.MaxAge,
     AcceptedEmploymentStatus |-> p.AcceptedEmploymentStatus,
     IsActive |-> TRUE]

\* ProductRepository.Create: INSERT ... RETURNING id.  reaches says whether
\* the statement and its parameters get as far as the table's constraints
\* (the connection is up, the driver's values are accepted).
CreateProduct(table, id, p, reaches) ==
    IF ~reaches \/ ~LoanProductsConstraints(table, p)
    THEN [table |-> table, id |-> 0,
          err |-> Ptr("failed to create loan product")]
    ELSE [table |-> Append(table, LoanProductRow(p, id)), id |-> id,
          err |-> Nil]

\* the calls of Create so far, the sequence loan_products_id_seq, and the
\* argument and result of the last call
ProductCreates ==
    IF probe = Nil
    THEN [calls |-> 0, nextID |-> 1, product |-> Nil, id |-> 0, err |-> Nil]
    ELSE probe[1]

\* a caller creates a product; nextval is taken by every INSERT that runs
CreateLoanProduct ==
    /\ ProductCreates.calls < MaxProductCreates
    /\ \E p \in LoanProductCreates, reaches \in BOOLEAN :
          LET w == CreateProduct(productsTable, ProductCreates.nextID, p,
                                 reaches)
          IN  /\ productsTable' = w.table
              /\ probe' = Ptr([calls |-> ProductCreates.calls + 1,
                               nextID |-> ProductCreates.nextID
                                          + (IF reaches THEN 1 ELSE 0),
                               product |-> Ptr(p), id |-> w.id,
                               err |-> w.err])
    /\ UNCHANGED <<usersTable, apiKey, svc, userIDs, database, locals, pc,
                   ret, runs, creates, firstRun, sqlCandidates, cancelled,
                   lastWrite>>

\* an empty loan_products table
InitProducts ==
    /\ usersTable = <<>>
    /\ productsTable = <<>>
    /\ apiKey = ""
    /\ svc = UniformTable(QualifiedReply)
    /\ userIDs = {}
    /\ Idle

NextProducts == CreateLoanProduct

SpecProducts == InitProducts /\ [][NextProducts]_vars

\* ---------------------------------------------------- CSVParser.ParseUsers

\* data rows of the CSV contents explored
MaxCsvRows == 3

\* a float64: a number, or NaN
Float(v) == [nan |-> FALSE, v |-> v]
NaN == [nan |-> TRUE, v |-> 0]

\* a < b on float64: false when either side is NaN
FloatLess(a, b) == ~a.nan /\ ~b.nan /\ a.v < b.v

\* income / 12.0, on the incomes below, all multiples of 12
FloatDivTwelve(a) == IF a.nan THEN a ELSE Float(a.v \div 12)

\* strings.TrimSpace on the cells below
TrimSpace(s) ==
    CASE s = " u3 " -> "u3"
      [] s = "   " -> ""
      [] OTHER -> s

\* what strconv.ParseFloat(s, 64) accepts once parseFloat has removed
\* commas and a leading currency sign: decimal numbers, and "NaN"
FloatLiterals ==
    "60000" :> Float(60000) @@ "1,20,000" :> Float(120000)
    @@ "$2400" :> Float(2400) @@ "0" :> Float(0)
    @@ "-1200" :> Float(-1200) @@ "NaN" :> NaN

\* parseFloat
parseFloat(s) ==
    IF s = "" THEN Err("empty value")
    ELSE IF s \in DOMAIN FloatLiterals THEN Ok(FloatLiterals[s])
    ELSE Err("invalid syntax")

\* strings with a "." that strconv.ParseFloat accepts, and int(f) of each
DottedLiterals == "750.0" :> 750 @@ "30.9" :> 30

\* strings strconv.Atoi accepts once parseInt has removed commas
IntLiterals ==
    "700" :> 700 @@ "299" :> 299 @@ "300" :> 300 @@ "900" :> 900
    @@ "901" :> 901 @@ "30" :> 30 @@ "17" :> 17 @@ "18" :> 18
    @@ "120" :> 120 @@ "121" :> 121 @@ "1,000" :> 1000

\* parseInt
parseInt(s) ==
    IF s = "" THEN Err("empty value")
    ELSE IF s \in DOMAIN DottedLiterals THEN Ok(DottedLiterals[s])
    ELSE IF s \in DOMAIN IntLiterals THEN Ok(IntLiterals[s])
    ELSE Err("invalid syntax")

\* NormalizeEmploymentStatus: lower case, " " and "-" to "_", then statusMap
NormalizeEmploymentStatus(status) ==
    LET normalized ==
            CASE status = "Salaried" -> "salaried"
              [] status = "Self-Employed" -> "self_employed"
              [] status = "Not Employed" -> "not_employed"
              [] OTHER -> status
        statusMap ==
            "employed" :> "employed" @@ "salaried" :> "employed"
            @@ "self_employed" :> "self_employed"
            @@ "freelancer" :> "self_employed"
            @@ "unemployed" :> "unemployed" @@ "not_employed" :> "unemployed"
            @@ "retired" :> "retired" @@ "pensioner" :> "retired"
            @@ "student" :> "student" @@ "studying" :> "student"
    IN  IF normalized \in DOMAIN statusMap THEN statusMap[normalized]
        ELSE normalized

\* ValidEmploymentStatuses
ValidEmploymentStatuses ==
    {"employed", "self_employed", "unemployed", "retired", "student"}

\* isValidEmail on the cells below: something before "@", and a "." that is
\* neither right after it nor last
isValidEmail(email) ==
    CASE email = "a@b.com" -> TRUE
      [] email = "x.y@mail.org" -> TRUE
      [] email = "a@b" -> FALSE
      [] email = "@b.com" -> FALSE
      [] email = "a.b@c" -> FALSE
      [] email = "" -> FALSE
      [] OTHER -> FALSE

\* ValidateUserCreate
ValidateUserCreate(u) ==
    IF TrimSpace(u.UserID) = "" THEN Ptr("user_id cannot be empty")
    ELSE IF ~isValidEmail(u.Email) THEN Ptr("invalid email address")
    ELSE IF FloatLess(u.MonthlyIncome, Float(0))
    THEN Ptr("monthly income cannot be negative")
    ELSE IF u.CreditScore < 300 \/ u.CreditScore > 900
    THEN Ptr("credit score must be between 300 and 900")
    ELSE IF u.Age < 18 \/ u.Age > 120
    THEN Ptr("age must be between 18 and 120")
    ELSE IF u.EmploymentStatus \notin ValidEmploymentStatuses
    THEN Ptr("invalid employment status")
    ELSE Nil

\* RequiredColumns
RequiredColumns ==
    <<"user_id", "email", "monthly_income", "credit_score",
      "employment_status", "age">>

\* ColumnAliases, the entries for the headers below
ColumnAliases ==
    "name" :> "user_id" @@ "mail" :> "email"
    @@ "annual_income" :> "monthly_income"
    @@ "cibil" :> "credit_score" @@ "occupation" :> "employment_status"

\* buildColumnMapping, p.columnMapping[column]: the last header cell (lower
\* case and trimmed already) whose name or alias is column, counted from 1;
\* 0 when there is none
ColumnIndex(header, column) ==
    LET normalized(col) ==
            IF col \in DOMAIN ColumnAliases THEN ColumnAliases[col] ELSE col
        at == {i \in DOMAIN header : normalized(header[i]) = column}
    IN  IF at = {} THEN 0 ELSE CHOOSE i \in at : \A j \in at : j <= i

\* buildColumnMapping: the required columns the header lacks
MissingColumns(header) ==
    SelectSeq(RequiredColumns, LAMBDA c : ColumnIndex(header, c) = 0)

\* getValue of parseRow
getValue(header, record, column) ==
    LET index == ColumnIndex(header, column)
    IN  IF index = 0 THEN Err("column not found")
        ELSE IF index > Len(record) THEN Err("column index out of range")
        ELSE Ok(TrimSpace(record[index]))

\* CSVParser.parseRow
parseRow(header, record, batchID) ==
    LET userID == getValue(header, record, "user_id")
        email == getValue(header, record, "email")
        incomeStr == getValue(header, record, "monthly_income")
        scoreStr == getValue(header, record, "credit_score")
        statusStr == getValue(header, record, "employment_status")
        ageStr == getValue(header, record, "age")
        \* strings.Contains(p.originalHeaders["monthly_income"], "annual")
        annual ==
            header[ColumnIndex(header, "monthly_income")] = "annual_income"
    IN  IF userID.kind # "ok" THEN userID
        ELSE IF email.kind # "ok" THEN email
        ELSE IF incomeStr.kind # "ok" THEN incomeStr
        ELSE LET income == parseFloat(incomeStr.value) IN
        IF income.kind # "ok" THEN Err("invalid monthly_income")
        ELSE IF scoreStr.kind # "ok" THEN scoreStr
        ELSE LET creditScore == parseInt(scoreStr.value) IN
        IF creditScore.kind # "ok" THEN Err("invalid credit_score")
        ELSE IF statusStr.kind # "ok" THEN statusStr
        ELSE IF ageStr.kind # "ok" THEN ageStr
        ELSE LET age == parseInt(ageStr.value) IN
        IF age.kind # "ok" THEN Err("invalid age")
        ELSE Ok([UserID |-> userID.value, Email |-> email.value,
                 MonthlyIncome |-> IF annual
                                   THEN FloatDivTwelve(income.value)
                                   ELSE income.value,
                 CreditScore |-> creditScore.value,
                 EmploymentStatus |->
                     NormalizeEmploymentStatus(statusStr.value),
                 Age |-> age.value, BatchID |-> batchID])

\* one turn of the loop of ParseUsers, for the record of line lineNum:
\* reader.Read failed, or parseRow, then ValidateUserCreate
ParseLine(header, line, lineNum, batchID, out) ==
    IF line.readErr
    THEN [out EXCEPT !.errors = Append(@, [line |-> lineNum,
                                         msg |-> "parse error"])]
    ELSE LET user == parseRow(header, line.record, batchID) IN
    IF user.kind # "ok"
    THEN [out EXCEPT !.errors = Append(@, [line |-> lineNum,
                                         msg |-> user.msg])]
    ELSE LET invalid == ValidateUserCreate(user.value) IN
    IF invalid # Nil
    THEN [out EXCEPT !.errors = Append(@, [line |-> lineNum,
                                         msg |-> invalid[1]])]
    ELSE [out EXCEPT !.users = Append(@, user.value)]

\* the loop over the records after the header: lines 2, 3, ...
RECURSIVE ParseLines(_, _, _, _, _)
ParseLines(header, lines, k, batchID, out) ==
    IF k > Len(lines) THEN out
    ELSE ParseLines(header, lines, k + 1, batchID,
                    ParseLine(header, lines[k], k + 1, batchID, out))

\* CSVParser.ParseUsers on what encoding/csv reads from content: nothing
\* for a blank content, else the header and the records after it
ParseUsers(content, batchID) ==
    IF content.blank
    THEN [users |-> <<>>,
          errors |-> <<[line |-> 0, msg |-> "CSV content is empty"]>>]
    ELSE IF MissingColumns(content.header) # <<>>
    THEN [users |-> <<>>,
          errors |-> <<[line |-> 0, msg |-> "missing required columns"]>>]
    ELSE LET out == ParseLines(content.header, content.lines, 1, batchID,
                               [users |-> <<>>, errors |-> <<>>])
         IN  IF Len(out.users) = 0 /\ Len(out.errors) > 0
             THEN [users |-> <<>>,
                   errors |-> <<[line |-> 0,
                                 msg |-> "CSV file contains no data rows"]>>
                              \o out.errors]
             ELSE out

\* headers: the standard names, aliases with a yearly income, one column short
CsvHeaders ==
    {RequiredColumns,
     <<"name", "mail", "annual_income", "cibil", "occupation", "age">>,
     SubSeq(RequiredColumns, 1, 5)}

\* a row every check accepts, that row with one cell replaced, and a short
\* row
CsvRecords ==
    LET cells == <<"u1", "a@b.com", "60000", "700", "employed", "30">> IN
    {cells, SubSeq(cells, 1, 2)}
    \cup {[cells EXCEPT ![d[1]] = d[2]] :
            d \in {<<1, " u3 ">>, <<1, "   ">>,
                   <<2, "a@b">>, <<2, "x.y@mail.org">>,
                   <<3, "-1200">>, <<3, "NaN">>, <<3, "abc">>, <<3, "">>,
                   <<3, "1,20,000">>,
                   <<4, "299">>, <<4, "901">>, <<4, "750.0">>, <<4, "abc">>,
                   <<5, "Salaried">>, <<5, "intern">>,
                   <<6, "17">>, <<6, "121">>, <<6, "30.9">>}}

\* what reader.Read yields for a line: a record, or an error
CsvLines ==
    {[readErr |-> FALSE, record |-> r] : r \in CsvRecords}
    \cup {[readErr |-> TRUE, record |-> <<>>]}

\* an upload handler parses the CSV it was sent: a blank content, or a
\* header with up to MaxCsvRows lines
ParseCSV ==
    /\ pc = "idle"
    /\ \E blank \in BOOLEAN, h \in CsvHeaders, n \in 0..MaxCsvRows :
          \E ls \in [1..n -> CsvLines] :
             LET content ==
                     IF blank
                     THEN [blank |-> TRUE, header |-> <<>>, lines |-> <<>>]
                     ELSE [blank |-> FALSE, header |-> h, lines |-> ls]
             IN  /\ blank => (n = 0 /\ h = RequiredColumns)
                 /\ probe' = Ptr([content |-> content,
                                  batchID |-> "batch-1",
                                  out |-> ParseUsers(content, "batch-1")])
    /\ pc' = "parsed"
    /\ UNCHANGED <<config, database, locals, ret, runs, creates, firstRun,
                   sqlCandidates, cancelled, lastWrite>>

InitCsv ==
    /\ usersTable = <<>>
    /\ productsTable = <<>>
    /\ apiKey = ""
    /\ svc = UniformTable(QualifiedReply)
    /\ userIDs = {}
    /\ Idle

NextCsv == ParseCSV

SpecCsv == InitCsv /\ [][NextCsv]_vars

\* ------------------------------------------------------------------ properties

\* the (user, product) pairs of a sequence of candidates
Pairs(cs) == {<<cs[i].UserID, cs[i].ProductID>> : i \in DOMAIN cs}

\* the four criteria of Stage 1, stated on the rows
MeetsBasicCriteria(u, p) ==
    /\ u.MonthlyIncome >= p.MinMonthlyIncome
    /\ u.CreditScore >= p.MinCreditScore
    /\ p.MinAge <= u.Age
    /\ u.Age <= p.MaxAge
    /\ \/ p.AcceptedEmploymentStatus = <<>>
       \/ u.EmploymentStatus \in
            {p.AcceptedEmploymentStatus[k] :
                k \in DOMAIN p.AcceptedEmploymentStatus}

CreditWithinRange(u, p) ==
    /\ u.CreditScore >= p.MinCreditScore
    /\ (p.MaxCreditScore = Nil \/ u.CreditScore <= p.MaxCreditScore[1])

C3_SamePairsBothWays ==
    pc = "compared" =>
        Pairs(candidates) =
            {<<sqlCandidates[k].UserDBID, sqlCandidates[k].ProductID>> :
                k \in DOMAIN sqlCandidates}

\* a pair that Stage 1 and Stage 2 of the running call both let through
SurvivesStageTwo(pair) ==
    LET u == RowsByID(users, pair[1])
        p == RowsByID(products, pair[2])
    IN  /\ u # <<>>
        /\ p # <<>>
        /\ BasicCriteriaPass(NewCandidate(u[1], p[1]))
        /\ passesBusinessRules(u[1], p[1])

\* C4: in every run EvaluateMatch is called at most 100 times, never twice
\* for one pair, and each pair it is called for passed Stage 1 and Stage 2.
C4_StageThreeWithinBudget ==
    /\ [](/\ Len(evaluated) <= 100
          /\ Cardinality({evaluated[k] : k \in DOMAIN evaluated})
                = Len(evaluated))
    /\ [][Len(evaluated') > Len(evaluated) =>
             /\ evaluated' = Append(evaluated, evaluated'[Len(evaluated')])
             /\ SurvivesStageTwo(evaluated'[Len(evaluated')])]_vars

\* C4 happens: more than 100 pairs survived Stage 2 and 100 were evaluated
C4_Witness ==
    /\ Len(candidates) > 100
    /\ Len(evaluated) = 100
    /\ pc = "save"

\* candidate k of the running llmCheck has been dealt with, and EvaluateMatch
\* returned an error for it
FailedAt(k) ==
    /\ k < idx
    /\ apiKey # ""
    /\ EvaluateMatch(apiKey, ServiceReply(svc, topCandidates[k])).kind
          = "error"

InPassed(k) ==
    <<topCandidates[k].UserID, topCandidates[k].ProductID>> \in Pairs(passed)

AcceptedByFallback(k) ==
    \E i \in DOMAIN passed :
        /\ passed[i].UserID = topCandidates[k].UserID
        /\ passed[i].ProductID = topCandidates[k].ProductID
        /\ passed[i].LLMCheckPassed
        /\ passed[i].LLMReasoning
              = "LLM check skipped due to API error, high score approved"

ScoreAtLeast(c, k) == c.EligibilityScore.n >= k * c.EligibilityScore.d
ScoreAbove(c, k) == c.EligibilityScore.n > k * c.EligibilityScore.d

\* C5 as the claim has it: a candidate whose EvaluateMatch call returned an
\* error is accepted with the fallback note if its score exceeds 60 and is
\* dropped otherwise.
C5_FallbackWhenScoreExceeds ==
    \A k \in DOMAIN topCandidates :
        FailedAt(k) =>
            IF ScoreAbove(topCandidates[k], 60) THEN AcceptedByFallback(k)
            ELSE ~InPassed(k)

\* C5, amended: a candidate whose EvaluateMatch call returned an error is
\* accepted with the fallback note if its score is at least 60 and is
\* dropped otherwise; nothing but the score decides.
C5_FallbackWhenScoreAtLeast ==
    \A k \in DOMAIN topCandidates :
        FailedAt(k) =>
            IF ScoreAtLeast(topCandidates[k], 60) THEN AcceptedByFallback(k)
            ELSE ~InPassed(k)

\* C5 happens: of two failed candidates the one scoring exactly 60 was
\* accepted by the fallback and the one scoring less was dropped
C5_Witness ==
    /\ \E k \in DOMAIN topCandidates :
          /\ FailedAt(k)
          /\ topCandidates[k].EligibilityScore = FracInt(60)
          /\ AcceptedByFallback(k)
    /\ \E k \in DOMAIN topCandidates :
          /\ FailedAt(k)
          /\ ~ScoreAtLeast(topCandidates[k], 60)
          /\ ~InPassed(k)

\* the reasoning service has a key and answers every candidate with an error
AlwaysErrors ==
    /\ apiKey # ""
    /\ \A k \in DOMAIN svc : EvaluateMatch(apiKey, svc[k]).kind = "error"

\* the store holds an eligible match for candidate c, with c's score
PersistedEligible(c, store) ==
    \E r \in store :
        /\ r.UserID = c.UserID
        /\ r.ProductID = c.ProductID
        /\ r.Status = "eligible"
        /\ r.MatchScore = ToDecimal2(c.EligibilityScore)

RowsOf(c, store) ==
    {r \in store : r.UserID = c.UserID /\ r.ProductID = c.ProductID}

\* the step in which a run's BulkInsert succeeds and the call returns
PersistSucceeds == pc = "save" /\ pc' = "done"

\* C6 as the claim has it: with no key, or with a service that always
\* errors, a completed run has persisted an eligible match for every Stage-2
\* survivor scoring above 60 and none for any survivor scoring below 60,
\* however many survivors there are.
C6_FallbackPersistsByScore ==
    [][(PersistSucceeds /\ (apiKey = "" \/ AlwaysErrors)) =>
          \A k \in DOMAIN candidates :
              /\ ScoreAbove(candidates[k], 60)
                    => PersistedEligible(candidates[k], matches')
              /\ ~ScoreAtLeast(candidates[k], 60)
                    => RowsOf(candidates[k], matches') = {}]_vars

\* C6, amended: when a run's persist step succeeds, then (a) if the service
\* has a key and always errors, an eligible match is persisted for every
\* survivor that was among the at most 100 handed to Stage 3 and scores at
\* least 60, and the run writes nothing for the other survivors; (b) if no
\* key is configured, an eligible match is persisted for every survivor
\* handed to Stage 3, whatever its score, and nothing for the others.
C6_FallbackPersistsSelected ==
    [][PersistSucceeds =>
          \A k \in DOMAIN candidates :
              LET c == candidates[k]
                  selected == <<c.UserID, c.ProductID>> \in Pairs(topCandidates)
              IN  /\ AlwaysErrors =>
                        IF selected /\ ScoreAtLeast(c, 60)
                        THEN PersistedEligible(c, matches')
                        ELSE RowsOf(c, matches') = RowsOf(c, matches)
                  /\ apiKey = "" =>
                        IF selected THEN PersistedEligible(c, matches')
                        ELSE RowsOf(c, matches') = RowsOf(c, matches)]_vars

\* C6 happens: a run with an always-failing service and more than 100
\* survivors has completed; a survivor scoring above 60 is not in the store
C6_Witness ==
    /\ pc = "done"
    /\ AlwaysErrors
    /\ Len(candidates) > 100
    /\ \E k \in DOMAIN candidates :
          /\ ScoreAbove(candidates[k], 60)
          /\ RowsOf(candidates[k], matches) = {}
    /\ \E k \in DOMAIN candidates :
          PersistedEligible(candidates[k], matches)

\* C7: without an API key no request is sent, and every candidate handed to
\* Stage 3 is passed on, in order, qualified with confidence 0.7 and the
\* note that the check was skipped; what leaves Stage 3 is what entered it.
C7_NoKeyAcceptsAll ==
    apiKey = "" =>
        /\ httpCalls = 0
        /\ pc # "panicked"
        /\ Len(passed) = idx - 1
        /\ pc # "llm_check" => Len(passed) = Len(topCandidates)
        /\ \A k \in DOMAIN passed :
              /\ passed[k].UserID = topCandidates[k].UserID
              /\ passed[k].ProductID = topCandidates[k].ProductID
              /\ passed[k].LLMCheckPassed
              /\ passed[k].LLMConfidence = 70
              /\ passed[k].LLMReasoning
                    = "LLM check skipped - no API key configured"

\* C7 happens: llmCheck has returned a non-empty list without a key
C7_Witness ==
    /\ apiKey = ""
    /\ pc = "save"
    /\ Len(topCandidates) > 0
    /\ Len(passed) = Len(topCandidates)

\* C8: no failure of EvaluateMatch, whatever the reply lacks, ends the run
\* before the persist step: ProcessNewUsers never dies inside llmCheck.
C8_StageThreeNeverAborts == pc # "panicked"

\* C9: the matches table never holds two rows for one (user, product) pair.
C9_OneRowPerPair ==
    \A r1, r2 \in matches :
        (r1.UserID = r2.UserID /\ r1.ProductID = r2.ProductID) => r1 = r2

\* C9 happens: Create and a pipeline run have both written the same pair,
\* and the row was updated
C9_Witness ==
    /\ creates >= 1
    /\ runs >= 1
    /\ \E r \in matches :
          /\ r.UserID = 1
          /\ r.ProductID = 1
          /\ r.UpdatedAt > r.CreatedAt

\* what C10 compares of a row
Outcome(r) == <<r.UserID, r.ProductID, r.MatchScore, r.Status>>

\* C10: a run that completes after the first completed run, with the same
\* tables and service verdicts and no Create in between, leaves the same
\* rows, each with the same score and status, as the first run left.
C10_SecondRunSameRows ==
    (pc = "done" /\ firstRun # Nil /\ firstRun[1].creates = creates) =>
        /\ {Outcome(r) : r \in matches} = {Outcome(r) : r \in firstRun[1].rows}
        /\ Cardinality(matches) = Cardinality(firstRun[1].rows)

\* C10 happens: the second of two runs has completed and has updated a row
\* the first one inserted
C10_Witness ==
    /\ pc = "done"
    /\ runs = 2
    /\ creates = 0
    /\ firstRun # Nil
    /\ \E r \in matches : r.UpdatedAt > r.CreatedAt

\* ------------------------------------------------------------------ C11

\* C11: whenever ProcessNewUsers returns an error (the users or the products
\* could not be read, or the matches could not be saved) it also returns the
\* summary, holding the counts of the stages that had completed.
C11_FatalErrorKeepsSummary ==
    (ret # Nil /\ ret[1].err # Nil)
        => (ret[1].result # Nil /\ ret[1].result[1] = result)

\* ------------------------------------------------------------------ C12

\* the row is one the statement succeeds for when executed on its own
RowWritable(m) == ~ExecFails(m, usersTable, productsTable)

StoredPairs(store) == {<<r.UserID, r.ProductID>> : r \in store}

\* C12: in a persist step whose transaction can begin and commit, a row that
\* fails is only counted: inserted + failed is the number of rows submitted,
\* every row that succeeds on its own is in the table afterwards, and the
\* step returns no error.
C12_RowFailureIsNotFatal ==
    [][pc = "save" =>
        LET w == lastWrite'[1]
        IN  w.conn = "ok" =>
                  /\ w.inserted + w.failed = Len(w.rows)
                  /\ w.err = Nil
                  /\ \A k \in 1..Len(w.rows) :
                        RowWritable(w.rows[k]) =>
                          <<w.rows[k].UserID, w.rows[k].ProductID>>
                              \in StoredPairs(matches')]_vars

\* ------------------------------------------------------------------ C13

\* rows of the table the statement at time now wrote
WrittenAt(store, now) == {r \in store : r.UpdatedAt = now}

\* C13: after a persist step whose transaction can begin and commit, rows
\* failing or not, the run returns a summary whose FinalMatches is the
\* number of rows the step wrote.
C13_FinalMatchesCountsWrittenRows ==
    [][(pc = "save" /\ lastWrite'[1].conn = "ok") =>
        /\ ret'[1].result # Nil
        /\ ret'[1].result[1].FinalMatches
              = Cardinality(WrittenAt(matches', clock))]_vars

\* ------------------------------------------------------------------ C14

\* C14: once ctx is cancelled during Stage 3 no further candidate is
\* evaluated and none is accepted, and the call returns the outcome
\* "cancelled".
C14_CancelStopsStageThree ==
    [][(cancelled /\ pc = "llm_check") =>
        /\ evaluated' = evaluated
        /\ passed' = passed
        /\ pc' = "cancelled"]_vars

\* ------------------------------------------------------------------ C15

\* what llmCheck decides for one candidate, whatever it did before
DecisionFor(c) ==
    LLMCheckOne(c, users, products, apiKey, ServiceReply(svc, c))

\* the pairs of the Stage-3 input that are accepted one by one
AcceptedPairs ==
    {<<topCandidates[k].UserID, topCandidates[k].ProductID>> :
        k \in {j \in DOMAIN topCandidates : DecisionFor(topCandidates[j]).append}}

\* C15: for the same candidates and the same service, whatever the order of
\* the list handed to Stage 3: the accepted pairs and LLMCheckPassed are those
\* of the candidates taken one by one, the persist step writes exactly the
\* accepted pairs or nothing, and FinalMatches is their number.
C15_OrderOfStageThreeInput ==
    [][pc = "save" =>
        /\ Pairs(passed) = AcceptedPairs
        /\ Len(passed) = Cardinality(AcceptedPairs)
        /\ result.LLMCheckPassed = Cardinality(AcceptedPairs)
        /\ \A k \in DOMAIN topCandidates : ~DecisionFor(topCandidates[k]).panic
        /\ pc' = "done" =>
              /\ StoredPairs(WrittenAt(matches', clock)) = AcceptedPairs
              /\ result'.FinalMatches = Cardinality(AcceptedPairs)
        /\ pc' = "failed" => matches' = matches]_vars

\* Stage 3 has decided a list that is not in the order Stage 2 left it in,
\* accepting some of its candidates and dropping others
C15_Witness ==
    /\ pc = "save"
    /\ Len(passed) > 0
    /\ Len(passed) < Len(topCandidates)
    /\ \E k \in 1..(Len(topCandidates) - 1) :
          topCandidates[k].UserID > topCandidates[k + 1].UserID

\* ------------------------------------------------------------------ C16

\* by score, highest first
ScoreDescending(cs) ==
    \A i, j \in DOMAIN cs :
        i < j => ~FracLess(cs[i].EligibilityScore, cs[j].EligibilityScore)

\* candidates of equal score stand in the order they had in the input,
\* where the k-th candidate carries UserID k
TiesInInputOrder(cs) ==
    \A i, j \in DOMAIN cs :
        (i < j /\ cs[i].EligibilityScore = cs[j].EligibilityScore)
            => cs[i].UserID < cs[j].UserID

\* no candidate left out outranks one that was selected
TopOf(out, in) ==
    /\ \A i \in DOMAIN out : \E k \in DOMAIN in : in[k] = out[i]
    /\ \A k \in DOMAIN in :
          (\A i \in DOMAIN out : out[i] # in[k]) =>
             \A i \in DOMAIN out :
                ~FracLess(out[i].EligibilityScore, in[k].EligibilityScore)

C17_StageTwoOnlyRemoves ==
    [][pc = "logic_filter" =>
        /\ Pairs(candidates') \subseteq Pairs(candidates)
        /\ Cardinality(Pairs(candidates')) = Len(candidates')
        /\ Len(candidates') <= Len(candidates)]_vars

\* Stage 2 has removed some of the Stage-1 survivors and kept others
C17_Witness ==
    /\ pc = "select_top"
    /\ result.LogicFilterPassed > 0
    /\ result.LogicFilterPassed < result.SQLPrefilterPassed

\* ------------------------------------------------------------------ C18

\* C18: the score of every pair lies within 0 and 100.
C18_ScoreWithinBounds ==
    pc = "scored" =>
        /\ ~FracLess(probe[1].score, FracInt(0))
        /\ ~FracLess(FracInt(100), probe[1].score)

\* the pair at every edge at once: credit = min credit = 900, income = min
\* income = 0, min age = max age
C18_Witness ==
    /\ pc = "scored"
    /\ users[1].CreditScore = products[1].MinCreditScore
    /\ products[1].MinCreditScore = MaxCreditScoreValue
    /\ users[1].MonthlyIncome = products[1].MinMonthlyIncome
    /\ products[1].MinMonthlyIncome = 0
    /\ products[1].MinAge = products[1].MaxAge
    /\ probe[1].score = FracInt(20)

\* ------------------------------------------------------------------ C19

\* the applicants of the same age and employment whose income and credit
\* score are both at least those of u
AtLeast(u) ==
    {[u EXCEPT !.MonthlyIncome = income, !.CreditScore = credit] :
        income \in {i \in Stage2Incomes : i >= u.MonthlyIncome},
        credit \in {c \in Stage2Credits : c >= u.CreditScore}}

AtMinimums(u, p) ==
    /\ u.MonthlyIncome = p.MinMonthlyIncome
    /\ u.CreditScore = p.MinCreditScore

\* C19: for one product, the applicant exactly at the minimum income and the
\* minimum credit score scores more than 0, and no applicant of the same age
\* and employment with at least that income and credit scores less; the score
\* never decreases when income and credit increase.
C19_ScoreGrowsWithIncomeAndCredit ==
    pc = "scored" =>
        /\ AtMinimums(users[1], products[1])
              => FracLess(FracInt(0), probe[1].score)
        /\ \A v \in AtLeast(users[1]) :
              ~FracLess(calculateEligibilityScore(v, products[1]),
                        probe[1].score)

\* an applicant exactly at the minimums, outscored by a richer one with a
\* better credit score
C19_Witness ==
    /\ pc = "scored"
    /\ AtMinimums(users[1], products[1])
    /\ \E v \in AtLeast(users[1]) :
          /\ v.MonthlyIncome > users[1].MonthlyIncome
          /\ v.CreditScore > users[1].CreditScore
          /\ FracLess(probe[1].score,
                      calculateEligibilityScore(v, products[1]))

\* ------------------------------------------------------------------ C20

\* (1 + r)^n in units of 1/EmiScale
RECURSIVE Compound(_, _)
Compound(r, n) ==
    IF n = 0 THEN EmiScale
    ELSE (Compound(r, n - 1) * (EmiScale + r)) \div EmiScale

\* P * r * (1+r)^n / ((1+r)^n - 1) for the minimum amount at the maximum
\* rate over the maximum tenure (60 months when it is unset), in units of
\* 1/EmiScale; the rate is not 0
Installment(p) ==
    LET r == (p.InterestRateMax * EmiScale) \div 1200
        n == IF p.TenureMaxMonths = 0 THEN DefaultTenure
             ELSE p.TenureMaxMonths
    IN  (p.LoanAmountMin * r * Compound(r, n))
            \div (Compound(r, n) - EmiScale)

ReadErrors == {Ptr("failed to get users"), Ptr("failed to get products")}

ReadFailed == ret # Nil /\ ret[1].err \in ReadErrors

\* C21: when reading the users or the active products fails, the call
\* returns that error at once, the read is not made a second time, and the
\* run has no Stage-1 candidate, no Stage-3 call and no Match row written.
C21_ReadFailureIsFatal ==
    /\ [](ReadFailed =>
            /\ pc = "failed"
            /\ ret[1].result = Nil
            /\ candidates = <<>>
            /\ topCandidates = <<>>
            /\ passed = <<>>
            /\ evaluated = <<>>
            /\ httpCalls = 0)
    /\ [][(~ReadFailed /\ ReadFailed') =>
            /\ pc \in {"idle", "done", "failed", "panicked", "get_products"}
            /\ UNCHANGED <<database, lastWrite>>
            /\ (pc = "get_products" => runs' = runs)]_vars

\* the users were read, the products could not be
C21_Witness ==
    /\ pc = "failed"
    /\ ret # Nil
    /\ ret[1].err = Ptr("failed to get products")
    /\ users # <<>>

\* ------------------------------------------------------------------ C22

\* what EvaluateMatch returns for candidate c
ResponseFor(c) == EvaluateMatch(apiKey, ServiceReply(svc, c))

\* the row of the table for the pair of candidate c holds this response's
\* reasoning and confidence
StoresResponse(store, c, response) ==
    \E r \in store :
        /\ r.UserID = c.UserID
        /\ r.ProductID = c.ProductID
        /\ r.LLMAnalysis = response.Reasoning
        /\ r.LLMConfidence = Ptr(response.Confidence)

\* C22: a candidate whose Stage-3 call succeeded is appended to the output
\* of Stage 3 exactly when the response says qualified, with the reasoning
\* and the confidence of the response, and after the persist step the row of
\* its pair holds that reasoning and that confidence.
C22_QualifiedCarriesResponse ==
    [][/\ (pc = "llm_check" /\ idx <= Len(topCandidates)
            /\ ResponseFor(topCandidates[idx]).kind = "ok") =>
              LET response == ResponseFor(topCandidates[idx]).value
              IN  /\ (Len(passed') = Len(passed) + 1) <=> response.Qualified
                  /\ ~response.Qualified => passed' = passed
                  /\ response.Qualified =>
                        /\ passed'[Len(passed')].LLMReasoning
                              = response.Reasoning
                        /\ passed'[Len(passed')].LLMConfidence
                              = response.Confidence
       /\ PersistSucceeds =>
              \A k \in DOMAIN passed :
                  ResponseFor(passed[k]).kind = "ok" =>
                      StoresResponse(matches', passed[k],
                                     ResponseFor(passed[k]).value)]_vars

\* ------------------------------------------------------------------ C26

\* the row holds every field of the MatchCreate m
HoldsAllOf(r, m) ==
    /\ r.MatchScore = ToDecimal2(m.MatchScore)
    /\ r.Status = m.Status
    /\ r.MatchSource = m.MatchSource
    /\ r.IncomeEligible = m.IncomeEligible
    /\ r.CreditScoreEligible = m.CreditScoreEligible
    /\ r.AgeEligible = m.AgeEligible
    /\ r.EmploymentEligible = m.EmploymentEligible
    /\ r.LLMAnalysis = m.LLMAnalysis
    /\ r.LLMConfidence = m.LLMConfidence
    /\ r.BatchID = m.BatchID

\* C26: after the persist step the row of every pair it was given, new or
\* already there, holds every field of the Match just computed: score,
\* status, decision stage, the four flags, reasoning, confidence, batch tag.
C26_UpsertOverwritesEveryField ==
    [][PersistSucceeds =>
        \A k \in DOMAIN lastWrite'[1].rows :
            \E r \in matches' :
                /\ r.UserID = lastWrite'[1].rows[k].UserID
                /\ r.ProductID = lastWrite'[1].rows[k].ProductID
                /\ HoldsAllOf(r, lastWrite'[1].rows[k])]_vars

\* ------------------------------------------------------------------ C27

\* the candidates of Stage 3 whose call returns an error
CandidatesInError ==
    {k \in DOMAIN topCandidates : ResponseFor(topCandidates[k]).kind = "error"}

\* C27: when Stage 3 returns, the error list of the summary has one entry
\* for each candidate whose call failed, so that their number N can be read
\* from the summary, for every N.
C27_SummaryCountsFailedCalls ==
    [][(pc = "llm_check" /\ pc' = "save") =>
        Len(result'.Errors) = Cardinality(CandidatesInError)]_vars

\* ------------------------------------------------------------------ C29

\* the batch tag of the applicant with this id
BatchOfUser(id) == usersTable[CHOOSE k \in DOMAIN usersTable : usersTable[k].ID = id].BatchID

\* C29: every row the persist step writes has the batch tag of its applicant.
C29_RowsCarryBatchTag ==
    [][PersistSucceeds =>
        \A r \in WrittenAt(matches', clock) :
            r.BatchID = BatchOfUser(r.UserID)]_vars

\* ------------------------------------------------------------------ C30

\* C30: every row the persist step writes has status eligible, decision
\* stage llm_check, the four flags true, a score within 0 and 100 and a
\* confidence that is absent or within 0 and 1 (in hundredths: 0 and 100).
C30_WrittenRowsWellFormed ==
    [][PersistSucceeds =>
        \A r \in WrittenAt(matches', clock) :
            /\ r.Status = "eligible"
            /\ r.MatchSource = "llm_check"
            /\ r.IncomeEligible
            /\ r.CreditScoreEligible
            /\ r.AgeEligible
            /\ r.EmploymentEligible
            /\ r.MatchScore >= 0
            /\ r.MatchScore <= 100 * 100
            /\ \/ r.LLMConfidence = Nil
               \/ /\ r.LLMConfidence[1] >= 0
                  /\ r.LLMConfidence[1] <= 100]_vars

\* the ids MarkAsNotified was given before the last GetPendingNotifications
MarkedBeforeQuery ==
    {Notifications.marked[k].id :
        k \in {j \in DOMAIN Notifications.marked :
                  Notifications.marked[j].at < Notifications.at}}

\* C23: over pipeline runs and notification calls, the upserts of Create and
\* BulkInsert leave a stored Match's notified_at as it was, and notified_at
\* is written at most once per Match: only by a MarkAsNotified call, and
\* only while it is still NULL.
C23_NotifiedAtWrittenOnce ==
    [][\A r \in matches : \A s \in matches' :
          (s.ID = r.ID /\ s.NotifiedAt # r.NotifiedAt)
              => /\ Len(Notifications'.marked)
                      = Len(Notifications.marked) + 1
                 /\ r.NotifiedAt = Nil]_vars

\* C28: a Match that MarkAsNotified was applied to is in no later result of
\* GetPendingNotifications, whatever pipeline runs upserted its pair in
\* between.
C28_NotifiedNeverPendingAgain ==
    Notifications.asked =>
        \A i \in DOMAIN Notifications.pending :
            Notifications.pending[i].ID \notin MarkedBeforeQuery

\* a marked Match whose pair a later run upserted, putting its status back
\* to eligible, and a query of every batch made after that
C28_Witness ==
    /\ Notifications.asked
    /\ Notifications.err = Nil
    /\ Notifications.batchID = ""
    /\ \E r \in matches :
          /\ r.ID \in MarkedBeforeQuery
          /\ r.Status = "eligible"
          /\ r.UpdatedAt < Notifications.at
          /\ \E k \in DOMAIN Notifications.marked :
                /\ Notifications.marked[k].id = r.ID
                /\ Notifications.marked[k].at < r.UpdatedAt
    /\ Notifications.pending # <<>>

\* some range of product p has its maximum below its minimum
HasInvertedRange(p) ==
    \/ p.InterestRateMax < p.InterestRateMin
    \/ p.LoanAmountMax < p.LoanAmountMin
    \/ p.TenureMaxMonths < p.TenureMinMonths
    \/ p.MaxAge < p.MinAge
    \/ (p.MaxCreditScore # Nil /\ p.MaxCreditScore[1] < p.MinCreditScore)

SatisfiesUserRules(u) ==
    /\ TrimSpace(u.UserID) # ""
    /\ isValidEmail(u.Email)
    /\ ~u.MonthlyIncome.nan
    /\ u.MonthlyIncome.v >= 0
    /\ u.CreditScore >= 300
    /\ u.CreditScore <= 900
    /\ u.Age >= 18
    /\ u.Age <= 120
    /\ u.EmploymentStatus \in ValidEmploymentStatuses

\* the line is read, parsed and validated without an error
IsValidLine(header, line) ==
    /\ ~line.readErr
    /\ parseRow(header, line.record, "batch-1").kind = "ok"
    /\ ValidateUserCreate(parseRow(header, line.record, "batch-1").value)
          = Nil

\* C25: for a CSV whose header has every required column, each user that
\* ParseUsers returns has a non-empty id, a valid email, an income >= 0, a
\* credit score in 300..900, an age in 18..120 and one of the five
\* employment categories; the users returned are those of the valid lines,
\* in order, whatever invalid lines stand between them, and every invalid
\* line adds one error.
C25_ParsedUsersAreValid ==
    (/\ pc = "parsed"
     /\ ~probe[1].content.blank
     /\ MissingColumns(probe[1].content.header) = <<>>)
    => LET header == probe[1].content.header
           lines == probe[1].content.lines
           out == probe[1].out
           valid == SelectSeq(lines, LAMBDA l : IsValidLine(header, l))
       IN  /\ \A i \in DOMAIN out.users : SatisfiesUserRules(out.users[i])
           /\ Len(out.users) = Len(valid)
           /\ \A i \in DOMAIN out.users :
                 out.users[i]
                     = parseRow(header, valid[i].record, "batch-1").value
           /\ Len(out.errors)
                 = Len(lines) - Len(valid)
                   + (IF valid = <<>> /\ lines # <<>> THEN 1 ELSE 0)

====
